---- MODULE Spec2Model ----
(***************************************************************************)
(* A model of the factor_engine pipeline: ingestion, factor computation,   *)
(* signal generation, portfolio construction and the walk-forward          *)
(* backtest, with the SQLite tables they persist to.                        *)
(*                                                                         *)
(* Floating-point numbers are modelled as exact rationals <<n, d>> in      *)
(* lowest terms with d > 0.  Dates are day numbers 1..MaxDay of a          *)
(* compressed calendar whose months have DaysPerMonth days.                *)
(***************************************************************************)
EXTENDS Integers, Sequences, FiniteSets, TLC

VARIABLES
    config,             \* the ConfigBundle the components were built with
    run_as_of,          \* RunContext.as_of_date of the run (in memory)
    survivorship_flag,  \* runs.survivorship_flag of the run
    symbols,            \* table symbols: the tickers that have a Symbol row
    membership,         \* table universe_membership: ticker -> start date or NoDate
    db,                 \* the rows of the other tables, each tagged with its table
    bt,                 \* the locals of a run_backtest call in progress
    last,               \* the last call made: its name, arguments, result, error
    stage,              \* runs.stage of the run
    store,              \* the override store file: its leaves, path -> value
    cli                 \* the CLI command in progress, runs.as_of_date, commands run

vars ==
    <<config, run_as_of, survivorship_flag, symbols, membership, db, bt, last,
      stage, store, cli>>

-----------------------------------------------------------------------------
(* Bounds of the model *)

MaxDay == 9             \* the calendar is days 1..MaxDay
DaysPerMonth == 4       \* a month-end every DaysPerMonth days
MaxTopN == 2            \* top_n ranges over 0..MaxTopN
MaxSignals == 2         \* length of the signal lists given to build
MaxAsOf == 3            \* build_signals is called for the dates 1..MaxAsOf
LookbackLong == 4       \* stands for the 252-day lookback
LookbackShort == 3      \* stands for the 126-day lookback
PriceWindow == 5        \* stands for the 300-row limit of _load_prices
LiquidityWindow == 2    \* stands for the 90-row liquidity window

Tickers == {"A", "B"}
Days == 1..MaxDay
NoDate == 0
RunId == "r1"

-----------------------------------------------------------------------------
(* Exact rational arithmetic standing in for Python floats *)

Abs(x) == IF x < 0 THEN -x ELSE x

RECURSIVE GCD(_, _)
GCD(a, b) == IF b = 0 THEN a ELSE GCD(b, a % b)

Rat(n, d) ==
    LET s == IF d < 0 THEN -1 ELSE 1
        g == GCD(Abs(n), Abs(d))
    IN  <<(s * n) \div g, (s * d) \div g>>

R(n) == <<n, 1>>
Zero == R(0)
One == R(1)
RAdd(x, y) == Rat(x[1] * y[2] + y[1] * x[2], x[2] * y[2])
RSub(x, y) == Rat(x[1] * y[2] - y[1] * x[2], x[2] * y[2])
RMul(x, y) == Rat(x[1] * y[1], x[2] * y[2])
RDiv(x, y) == Rat(x[1] * y[2], x[2] * y[1])
RLess(x, y) == x[1] * y[2] < y[1] * x[2]
RLeq(x, y) == x[1] * y[2] <= y[1] * x[2]
RMin(x, y) == IF RLeq(x, y) THEN x ELSE y

RECURSIVE RSum(_)
RSum(seq) == IF seq = <<>> THEN Zero ELSE RAdd(Head(seq), RSum(Tail(seq)))

Min(a, b) == IF a <= b THEN a ELSE b
Max(a, b) == IF a >= b THEN a ELSE b

-----------------------------------------------------------------------------
(* Unit of work: session_scope commits every pending row or none *)

\* The unique key of a row, by table (the UniqueConstraint of its model class).
RowKey(r) ==
    CASE r.t = "price" -> <<r.symbol, r.price_date>>
      [] r.t = "factor" -> <<r.symbol, r.run_id, r.factor_name, r.value_date>>
      [] r.t = "liquidity" -> <<r.symbol, r.run_id, r.metric_date>>
      [] r.t = "signal" -> <<r.run_id, r.symbol, r.as_of_date>>
      [] r.t = "position" -> <<r.run_id, r.symbol, r.rebalance_date>>
      [] r.t = "result" -> <<r.run_id>>
      [] r.t = "equity" -> <<r.run_id, r.point_date>>
      [] r.t = "audit" -> <<r.id>>

SeqToSet(seq) == {seq[i] : i \in 1..Len(seq)}

\* The pending rows that collide with a stored row of the same table or with
\* an earlier pending row.
Duplicates(stored, pending) ==
    {i \in 1..Len(pending) :
        \/ \E r \in stored : r.t = pending[i].t /\ RowKey(r) = RowKey(pending[i])
        \/ \E j \in 1..(i - 1) :
              pending[j].t = pending[i].t /\ RowKey(pending[j]) = RowKey(pending[i])}

\* Variant of Commit that keeps the rows inserted before the failing one.
CommitNoRollback(stored, pending) ==
    LET dup == Duplicates(stored, pending)
        first == CHOOSE i \in dup : \A j \in dup : i <= j
    IN  IF dup = {}
        THEN [ok |-> TRUE, rows |-> stored \cup SeqToSet(pending)]
        ELSE [ok |-> FALSE,
              rows |-> stored \cup {pending[i] : i \in 1..(first - 1)}]

\* session_scope: session.commit() flushes the pending inserts in one
\* transaction; an IntegrityError rolls all of them back and is re-raised.
Commit(stored, pending) ==
    IF Duplicates(stored, pending) = {}
    THEN [ok |-> TRUE, rows |-> stored \cup SeqToSet(pending)]
    ELSE [ok |-> FALSE, rows |-> stored]

-----------------------------------------------------------------------------
(* Tables and universe membership *)

Table(t) == {r \in db : r.t = t}

NoMembership == [start |-> NoDate, end |-> NoDate]

\* get_active_symbols: Symbol joined with UniverseMembership where
\* start_date <= as_of and (end_date is None or end_date >= as_of).
get_active_symbols(as_of) ==
    {s \in symbols :
        /\ membership[s].start # NoDate
        /\ membership[s].start <= as_of
        /\ (membership[s].end = NoDate \/ membership[s].end >= as_of)}

\* The sequences that list every element of the set S once: the orders in
\* which a query without ORDER BY may return its rows.
Orders(S) ==
    {f \in [1..Cardinality(S) -> S] : \A x \in S : \E i \in DOMAIN f : f[i] = x}

\* seq restricted to the elements that satisfy keep, order preserved.
RECURSIVE Filter(_, _)
Filter(seq, keep) ==
    IF seq = <<>> THEN <<>>
    ELSE IF Head(seq) \in keep
         THEN <<Head(seq)>> \o Filter(Tail(seq), keep)
         ELSE Filter(Tail(seq), keep)

-----------------------------------------------------------------------------
(* FactorEngine *)

\* The elements of a set of dates in ascending order.
RECURSIVE Ascending(_)
Ascending(S) ==
    IF S = {} THEN <<>>
    ELSE LET m == CHOOSE x \in S : \A y \in S : x <= y
         IN  <<m>> \o Ascending(S \ {m})

Tail_(seq, n) == SubSeq(seq, Max(1, Len(seq) - n + 1), Len(seq))

PriceRowsOf(s) == {r \in Table("price") : r.symbol = s}

\* _load_prices: the latest PriceWindow rows dated <= as_of, ascending.
_load_prices(s, as_of) ==
    LET rows == {r \in PriceRowsOf(s) : r.price_date <= as_of}
        dates == Tail_(Ascending({r.price_date : r \in rows}), PriceWindow)
    IN  [i \in 1..Len(dates) |-> CHOOSE r \in rows : r.price_date = dates[i]]

\* Variant of _momentum that measures a short history from its first row.
MomentumFromFirstRow(df, lookback) ==
    IF df = <<>> THEN <<>>
    ELSE <<RSub(RDiv(df[Len(df)].adj_close,
                     df[Max(1, Len(df) - lookback + 1)].adj_close), One)>>

\* A factor method returns <<>> for None and <<value>> otherwise.
_momentum(df, lookback) ==
    IF Len(df) < lookback THEN <<>>
    ELSE <<RSub(RDiv(df[Len(df)].adj_close, df[Len(df) - lookback + 1].adj_close), One)>>

\* df["adj_close"].pct_change().dropna()
PctChange(df) ==
    [i \in 1..(Len(df) - 1) |-> RSub(RDiv(df[i + 1].adj_close, df[i].adj_close), One)]

\* The sample variance (ddof = 1) of a sequence of at least two numbers.
SampleVariance(xs) ==
    LET mean == RDiv(RSum(xs), R(Len(xs)))
        sq == [i \in 1..Len(xs) |-> RMul(RSub(xs[i], mean), RSub(xs[i], mean))]
    IN  RDiv(RSum(sq), R(Len(xs) - 1))

\* _realized_vol: returns.std() * sqrt(252) over the last `lookback` returns.
\* The model stores the square of that value, 252 * variance, so the
\* configurations of the model give realized_vol no factor weight.
_realized_vol(df, lookback) ==
    IF Len(df) < lookback THEN <<>>
    ELSE <<RMul(R(252), SampleVariance(Tail_(PctChange(df), lookback)))>>

RECURSIVE RunningMax(_, _)
RunningMax(df, i) ==
    IF i = 1 THEN df[1].adj_close
    ELSE LET m == RunningMax(df, i - 1)
         IN  IF RLess(m, df[i].adj_close) THEN df[i].adj_close ELSE m

RECURSIVE RMinOf(_)
RMinOf(xs) == IF Len(xs) = 1 THEN xs[1] ELSE RMin(xs[1], RMinOf(Tail(xs)))

\* _max_drawdown: min over the window of adj_close / running max - 1.
_max_drawdown(df) ==
    <<RMinOf([i \in 1..Len(df) |-> RSub(RDiv(df[i].adj_close, RunningMax(df, i)), One)])>>

\* Insert x into an ascending sequence of rationals.
RECURSIVE RInsert(_, _)
RInsert(x, sorted) ==
    IF sorted = <<>> THEN <<x>>
    ELSE IF RLeq(x, Head(sorted)) THEN <<x>> \o sorted
         ELSE <<Head(sorted)>> \o RInsert(x, Tail(sorted))

RECURSIVE RSort(_)
RSort(xs) == IF xs = <<>> THEN <<>> ELSE RInsert(Head(xs), RSort(Tail(xs)))

Median(xs) ==
    LET sorted == RSort(xs)
        n == Len(xs)
    IN  IF n % 2 = 1 THEN sorted[(n + 1) \div 2]
        ELSE RDiv(RAdd(sorted[n \div 2], sorted[n \div 2 + 1]), R(2))

\* _compute_liquidity: median of adj_close * volume over the last rows.
_compute_liquidity(df) ==
    LET window == Tail_(df, LiquidityWindow)
    IN  Median([i \in 1..Len(window) |-> RMul(window[i].adj_close, window[i].volume)])

\* self.definitions, in order.
FactorDefinitions ==
    <<[name |-> "momentum_12_1", lookback_days |-> LookbackLong, method |-> "momentum"],
      [name |-> "momentum_6_1", lookback_days |-> LookbackShort, method |-> "momentum"],
      [name |-> "realized_vol", lookback_days |-> LookbackShort, method |-> "volatility"],
      [name |-> "max_drawdown", lookback_days |-> LookbackLong, method |-> "max_drawdown"]>>

_compute_factor(df, definition) ==
    CASE definition.method = "momentum" -> _momentum(df, definition.lookback_days)
      [] definition.method = "volatility" -> _realized_vol(df, definition.lookback_days)
      [] definition.method = "max_drawdown" -> _max_drawdown(df)

\* The rows compute adds to the session for one symbol: its factor values,
\* then its liquidity metric with the next free id.
RowsForSymbol(s, as_of, id) ==
    LET df == _load_prices(s, as_of)
        defs == {i \in 1..Len(FactorDefinitions) : _compute_factor(df, FactorDefinitions[i]) # <<>>}
        kept == Ascending(defs)
    IN  IF df = <<>> THEN <<>>
        ELSE [k \in 1..Len(kept) |->
                [t |-> "factor", symbol |-> s, run_id |-> RunId,
                 factor_name |-> FactorDefinitions[kept[k]].name,
                 value_date |-> as_of,
                 value |-> _compute_factor(df, FactorDefinitions[kept[k]])[1]]]
             \o <<[t |-> "liquidity", id |-> id, symbol |-> s, run_id |-> RunId,
                   lookback_days |-> 90,
                   median_traded_value_clp |-> _compute_liquidity(df),
                   metric_date |-> as_of]>>

NextLiquidityId ==
    IF Table("liquidity") = {} THEN 1
    ELSE 1 + (CHOOSE r \in Table("liquidity") : \A q \in Table("liquidity") : q.id <= r.id).id

RECURSIVE ComputeRows(_, _, _)
ComputeRows(order, as_of, id) ==
    IF order = <<>> THEN <<>>
    ELSE LET rows == RowsForSymbol(Head(order), as_of, id)
         IN  rows \o ComputeRows(Tail(order), as_of, IF rows = <<>> THEN id ELSE id + 1)

\* The outcome of FactorEngine.compute(as_of) for a run whose as_of_date is
\* run_date, when the active symbols come in `order`.
ComputeOutcome(as_of, run_date, order) ==
    LET active == Filter(order, get_active_symbols(run_date))
        c == Commit(db, ComputeRows(active, as_of, NextLiquidityId))
    IN  [err |-> IF c.ok THEN "none" ELSE "IntegrityError", rows |-> c.rows]

-----------------------------------------------------------------------------
(* IngestionService *)

\* What a provider returns for a request: one row per day of the range,
\* on a flat price path or on one that swings between 100 and 200.
PricePaths == {"flat", "swing"}
ProviderClose(path, start, d) ==
    IF path = "swing" /\ (d - start) % 2 = 1 THEN R(200) ELSE R(100)
ProviderVolume == R(1000000)

RECURSIVE FrameRowsFrom(_, _, _, _, _)
FrameRowsFrom(s, path, start, d, end) ==
    IF d > end THEN <<>>
    ELSE <<[t |-> "price", symbol |-> s, run_id |-> RunId, price_date |-> d,
            adj_close |-> ProviderClose(path, start, d), volume |-> ProviderVolume]>>
         \o FrameRowsFrom(s, path, start, d + 1, end)

FrameRows(s, path, start, end) == FrameRowsFrom(s, path, start, start, end)

\* The rows _persist_prices adds: every row of every frame, frame by frame.
RECURSIVE PriceRows(_, _, _, _)
PriceRows(order, path, start, end) ==
    IF order = <<>> THEN <<>>
    ELSE FrameRows(Head(order), path, start, end) \o PriceRows(Tail(order), path, start, end)

-----------------------------------------------------------------------------
(* SignalGenerator *)

FactorNames == DOMAIN config.factor_weights

\* _latest_liquidity: the metric of (symbol, run) with the highest id, or None.
NoMetric == <<-1, 1>>
_latest_liquidity(s) ==
    LET rows == {r \in Table("liquidity") : r.symbol = s /\ r.run_id = RunId}
    IN  IF rows = {} THEN NoMetric
        ELSE (CHOOSE r \in rows : \A q \in rows : q.id <= r.id).median_traded_value_clp

_passes_liquidity(liquidity) ==
    IF liquidity = NoMetric
    THEN FALSE
    ELSE RLeq(R(config.median_traded_value_clp), liquidity)

\* Variant of FactorRows that matches the rows of every run.
FactorRowsAnyRun(s, name) ==
    {r \in Table("factor") : r.symbol = s /\ r.factor_name = name}

\* The rows _get_factor's query matches; .first() returns one of them.
FactorRows(s, name) ==
    {r \in Table("factor") : r.symbol = s /\ r.run_id = RunId /\ r.factor_name = name}

\* The choices of one value_date per (symbol, factor) that .first() can make:
\* NoDate exactly where no row matches.
FactorPicks ==
    {pick \in [Tickers \X FactorNames ->
                  {r.value_date : r \in Table("factor")} \cup {NoDate}] :
        \A s \in Tickers, n \in FactorNames :
            IF FactorRows(s, n) = {}
            THEN pick[<<s, n>>] = NoDate
            ELSE \E r \in FactorRows(s, n) : r.value_date = pick[<<s, n>>]}

_get_factor(s, name, pick) ==
    (CHOOSE r \in FactorRows(s, name) : r.value_date = pick[<<s, name>>]).value

RECURSIVE ScoreOver(_, _, _)
ScoreOver(names, s, pick) ==
    IF names = {} THEN Zero
    ELSE LET n == CHOOSE x \in names : TRUE
         IN  RAdd(RMul(config.factor_weights[n], _get_factor(s, n, pick)),
                  ScoreOver(names \ {n}, s, pick))

\* _compose_score over the factor values fetched for the symbol.
_compose_score(s, pick) == ScoreOver(FactorNames, s, pick)

\* The symbol passes the liquidity filter and no configured factor is missing.
Qualifies(s, pick) ==
    /\ _passes_liquidity(_latest_liquidity(s))
    /\ \A n \in FactorNames : pick[<<s, n>>] # NoDate

\* Insert x after every element whose score is >= x.score.
RECURSIVE InsertByScore(_, _)
InsertByScore(x, sorted) ==
    IF sorted = <<>> THEN <<x>>
    ELSE IF RLeq(x.score, Head(sorted).score)
         THEN <<Head(sorted)>> \o InsertByScore(x, Tail(sorted))
         ELSE <<x>> \o sorted

\* Variant of SortByScore that returns the signals in query order.
SortSkipped(seq) == seq

\* signals.sort(key=score, reverse=True): stable, non-increasing by score.
RECURSIVE SortByScore(_)
SortByScore(seq) ==
    IF seq = <<>> THEN <<>>
    ELSE InsertByScore(seq[Len(seq)], SortByScore(SubSeq(seq, 1, Len(seq) - 1)))

\* The rows the cache lookup matches: run_id and as_of_date == as_of.
ExistingSignals(as_of) ==
    {r \in Table("signal") : r.run_id = RunId /\ r.as_of_date = as_of}

SignalOfRow(s, as_of) ==
    LET r == CHOOSE q \in ExistingSignals(as_of) : q.symbol = s
    IN  [ticker |-> s, score |-> r.score, liquidity |-> r.liquidity]

\* The signals computed on a cache miss, in the order the symbols came.
ComputedSignals(run_date, order, pick) ==
    LET kept == Filter(order, {s \in get_active_symbols(run_date) : Qualifies(s, pick)})
    IN  [i \in 1..Len(kept) |->
            [ticker |-> kept[i],
             score |-> _compose_score(kept[i], pick),
             liquidity |-> _latest_liquidity(kept[i])]]

\* _persist_signals: one SignalRecord per signal, dated self.run.as_of_date.
SignalRows(signals, run_date) ==
    [i \in 1..Len(signals) |->
        [t |-> "signal",
         run_id |-> RunId,
         symbol |-> signals[i].ticker,
         as_of_date |-> run_date,
         score |-> signals[i].score,
         liquidity |-> signals[i].liquidity]]

\* The outcome of build_signals(as_of) for a run whose as_of_date is run_date,
\* when the queries return their rows in `order` and .first() picks the
\* factor rows `pick`.
BuildSignalsOutcome(as_of, run_date, order, pick) ==
    LET cachedSyms == {r.symbol : r \in ExistingSignals(as_of)}
    IN  IF cachedSyms # {}
        THEN LET kept == Filter(order, cachedSyms)
             IN  [cached |-> TRUE,
                  ret |-> SortByScore([i \in 1..Len(kept) |-> SignalOfRow(kept[i], as_of)]),
                  err |-> "none",
                  rows |-> db]
        ELSE LET signals == ComputedSignals(run_date, order, pick)
                 c == Commit(db, SignalRows(signals, run_date))
             IN  [cached |-> FALSE,
                  ret |-> IF c.ok THEN SortByScore(signals) ELSE <<>>,
                  err |-> IF c.ok THEN "none" ELSE "IntegrityError",
                  rows |-> c.rows]

-----------------------------------------------------------------------------
(* PortfolioBuilder *)

\* signals[:top_n]
Selected(signals, top_n) == SubSeq(signals, 1, Min(top_n, Len(signals)))

_liquidity_cap(signal) ==
    IF RLeq(signal.liquidity, Zero)
    THEN Zero
    ELSE Rat(config.max_weight_pct_of_adv, 100)

\* The provisional weight of the i-th selected signal.
ProvisionalWeight(selected, i) ==
    LET total_score == RSum([k \in 1..Len(selected) |-> selected[k].score])
    IN  IF total_score = Zero
        THEN Rat(1, Len(selected))
        ELSE RDiv(selected[i].score, total_score)

\* The positions before renormalisation: weight = min(weight, liquidity_cap).
CappedPositions(selected) ==
    [i \in 1..Len(selected) |->
        [ticker |-> selected[i].ticker,
         weight |-> RMin(ProvisionalWeight(selected, i), _liquidity_cap(selected[i])),
         liquidity_share |-> _liquidity_cap(selected[i])]]

Weights(positions) == [i \in 1..Len(positions) |-> positions[i].weight]

\* total = sum(p.weight); if total > 0: every weight is divided by total.
\* Variant of Renormalise that leaves the capped weights as they are.
RenormaliseSkipped(positions) == positions

Renormalise(positions) ==
    LET total == RSum(Weights(positions))
    IN  IF RLess(Zero, total)
        THEN [i \in 1..Len(positions) |->
                [positions[i] EXCEPT !.weight = RDiv(positions[i].weight, total)]]
        ELSE positions

\* The list PortfolioBuilder.build computes, before it is persisted.
BuildPositions(signals, top_n) ==
    LET selected == Selected(signals, top_n)
    IN  IF selected = <<>> THEN <<>> ELSE Renormalise(CappedPositions(selected))

PositionRows(positions, run_date) ==
    [i \in 1..Len(positions) |->
        [t |-> "position",
         run_id |-> RunId,
         symbol |-> positions[i].ticker,
         rebalance_date |-> run_date,
         weight |-> positions[i].weight,
         liquidity_cap |-> positions[i].liquidity_share]]

\* Variant of PersistPositions that replaces the positions of the run.
PersistPositionsReplacing(positions, run_date) ==
    [ok |-> TRUE, err |-> "none",
     rows |-> {r \in db : r.t # "position"} \cup SeqToSet(PositionRows(positions, run_date))]

\* _persist_positions: Symbol lookup by ticker (.one()), session.add, commit.
PersistPositions(positions, run_date) ==
    IF \E i \in 1..Len(positions) : positions[i].ticker \notin symbols
    THEN [ok |-> FALSE, err |-> "NoResultFound", rows |-> db]
    ELSE LET c == Commit(db, PositionRows(positions, run_date))
         IN  [ok |-> c.ok, err |-> IF c.ok THEN "none" ELSE "IntegrityError",
              rows |-> c.rows]

\* The outcome of PortfolioBuilder.build(signals, top_n) for a run whose
\* as_of_date is run_date.
BuildOutcome(signals, top_n, run_date) ==
    LET positions == BuildPositions(signals, top_n)
        p == PersistPositions(positions, run_date)
    IN  [ret |-> IF p.ok THEN positions ELSE <<>>,
         err |-> p.err,
         rows |-> p.rows]

-----------------------------------------------------------------------------
(* Backtest: schedule, execution model, period return *)

IsMonthEnd(d) == d % DaysPerMonth = 0

\* Variant of month_end_dates that appends the literal end date always.
MonthEndsAlwaysAppend(start, end) ==
    Append(Ascending({d \in start..end : IsMonthEnd(d)}), end)

\* pd.date_range(start, end, freq="M"), then end appended when the range is
\* empty or does not finish on end: the list month_end_dates returns when
\* `not offsets` acts as the emptiness test of the range.
month_end_dates(start, end) ==
    LET offsets == Ascending({d \in start..end : IsMonthEnd(d)})
    IN  IF offsets = <<>> \/ offsets[Len(offsets)] # end
        THEN Append(offsets, end)
        ELSE offsets

\* The outcomes of a call month_end_dates(start, end).  `not offsets` takes
\* the truth value of a pandas DatetimeIndex, which pandas refuses with
\* "ValueError: The truth value of a DatetimeIndex is ambiguous"; what the
\* test does is pandas' and not this repository's, so the call either raises
\* there or goes on with the emptiness test.
MonthEndDatesOutcomes(start, end) ==
    {[err |-> "ValueError", dates |-> <<>>],
     [err |-> "none", dates |-> month_end_dates(start, end)]}

\* date.weekday(): Monday is 0, Saturday 5, Sunday 6.
Weekday(d) == d % 7

RECURSIVE SkipWeekend(_)
SkipWeekend(d) == IF Weekday(d) >= 5 THEN SkipWeekend(d + 1) ELSE d

next_trading_day(day) == SkipWeekend(day + 1)

\* Variant of apply_costs that charges nothing.
ApplyNoCosts(gross_return) == gross_return

\* ExecutionModel.apply_costs
apply_costs(gross_return) ==
    RSub(gross_return, Rat(config.transaction_cost_bps + config.slippage_bps, 10000))

\* A missing price (None); stored prices are positive.
NoPrice == Zero

\* Variant of _price_on_or_after that takes the latest matching row.
PriceOnOrAfterLatest(s, target) ==
    LET rows == {r \in PriceRowsOf(s) : r.price_date >= target}
    IN  IF rows = {} THEN NoPrice
        ELSE (CHOOSE r \in rows : \A q \in rows : r.price_date >= q.price_date).adj_close

_price_on_or_after(s, target) ==
    LET rows == {r \in PriceRowsOf(s) : r.price_date >= target}
    IN  IF rows = {} THEN NoPrice
        ELSE (CHOOSE r \in rows : \A q \in rows : r.price_date <= q.price_date).adj_close

_price_on_or_before(s, target) ==
    LET rows == {r \in PriceRowsOf(s) : r.price_date <= target}
    IN  IF rows = {} THEN NoPrice
        ELSE (CHOOSE r \in rows : \A q \in rows : r.price_date >= q.price_date).adj_close

\* The positions that have a Symbol row, an entry price and an exit price.
Contributing(positions, trade_date, exit_date) ==
    {i \in 1..Len(positions) :
        /\ positions[i].ticker \in symbols
        /\ _price_on_or_after(positions[i].ticker, trade_date) # NoPrice
        /\ _price_on_or_before(positions[i].ticker, exit_date) # NoPrice}

\* gross = (exit_price / entry_price) - 1
Gross(ticker, trade_date, exit_date) ==
    RSub(RDiv(_price_on_or_before(ticker, exit_date),
              _price_on_or_after(ticker, trade_date)), One)

\* The sum of f[i] over the indices in idx.
RECURSIVE SumAt(_, _)
SumAt(f, idx) ==
    IF idx = {} THEN Zero
    ELSE LET i == CHOOSE x \in idx : TRUE
         IN  RAdd(f[i], SumAt(f, idx \ {i}))

\* total = sum of position.weight * gross over the contributing positions.
TotalReturn(positions, trade_date, exit_date) ==
    SumAt([i \in 1..Len(positions) |->
              IF i \in Contributing(positions, trade_date, exit_date)
              THEN RMul(positions[i].weight,
                        Gross(positions[i].ticker, trade_date, exit_date))
              ELSE Zero],
          Contributing(positions, trade_date, exit_date))

\* effective_weight = sum of the contributing positions' weights.
EffectiveWeight(positions, trade_date, exit_date) ==
    SumAt(Weights(positions), Contributing(positions, trade_date, exit_date))

\* Variant of _portfolio_return that charges costs on every period.
PortfolioReturnAlwaysCosts(positions, trade_date, exit_date) ==
    apply_costs(TotalReturn(positions, trade_date, exit_date))

_portfolio_return(positions, trade_date, exit_date) ==
    IF EffectiveWeight(positions, trade_date, exit_date) = Zero
    THEN Zero
    ELSE apply_costs(TotalReturn(positions, trade_date, exit_date))

\* Variant of PeriodReturn without the empty-portfolio branch.
PeriodReturnNoEmptyBranch(portfolio, rebalance_date, next_rebalance) ==
    apply_costs(TotalReturn(portfolio, next_trading_day(rebalance_date), next_rebalance))

\* The return run_backtest applies for one period: none for an empty
\* portfolio, else _portfolio_return from the next trading day on.
PeriodReturn(portfolio, rebalance_date, next_rebalance) ==
    IF portfolio = <<>> THEN Zero
    ELSE _portfolio_return(portfolio, next_trading_day(rebalance_date), next_rebalance)

DefaultTopN == 15

\* Variant of EquityRows that persists the points after the first only.
EquityRowsAfterStart(equity_points) ==
    [i \in 1..(Len(equity_points) - 1) |->
        [t |-> "equity", run_id |-> RunId,
         point_date |-> equity_points[i + 1].date,
         capital |-> equity_points[i + 1].capital]]

EquityRows(equity_points) ==
    [i \in 1..Len(equity_points) |->
        [t |-> "equity", run_id |-> RunId,
         point_date |-> equity_points[i].date, capital |-> equity_points[i].capital]]

\* _persist_results: the BacktestResult row, then one row per equity point
\* (session.merge of objects without a primary key inserts them).
ResultRows(start_date, end_date, equity_points) ==
    <<[t |-> "result", run_id |-> RunId, start_date |-> start_date,
       end_date |-> end_date,
       final_capital |-> equity_points[Len(equity_points)].capital,
       periods |-> Len(equity_points)]>>
    \o EquityRows(equity_points)

IdleBt == [pc |-> "idle"]

\* No CLI command in progress and none run; as_of is runs.as_of_date.
NoCli == [pc |-> "idle", command |-> "none", as_of |-> NoDate, count |-> 0]

\* One call PortfolioBuilder.build(signals, top_n).
Build(signals, top_n) ==
    /\ bt.pc = "idle"
    /\ LET out == BuildOutcome(signals, top_n, run_as_of)
       IN  /\ db' = out.rows
           /\ last' = [op |-> "build", signals |-> signals, top_n |-> top_n,
                       ret |-> out.ret, err |-> out.err]
    /\ UNCHANGED <<config, run_as_of, survivorship_flag, symbols, membership, bt, stage, store, cli>>

\* One call SignalGenerator.build_signals(as_of).
BuildSignals(as_of) ==
    /\ bt.pc = "idle"
    /\ \E order \in Orders(symbols), pick \in FactorPicks :
         LET out == BuildSignalsOutcome(as_of, run_as_of, order, pick)
         IN  /\ db' = out.rows
             /\ last' = [op |-> "build_signals", as_of |-> as_of, cached |-> out.cached,
                         ret |-> out.ret, err |-> out.err]
    /\ UNCHANGED <<config, run_as_of, survivorship_flag, symbols, membership, bt, stage, store, cli>>

\* One call FactorEngine.compute(as_of).
Compute(as_of) ==
    /\ bt.pc = "idle"
    /\ \E order \in Orders(symbols) :
         LET out == ComputeOutcome(as_of, run_as_of, order)
         IN  /\ db' = out.rows
             /\ last' = [op |-> "compute", as_of |-> as_of, err |-> out.err]
    /\ UNCHANGED <<config, run_as_of, survivorship_flag, symbols, membership, bt, stage, store, cli>>

\* _ensure_symbols: every configured constituent gets a Symbol row and, when
\* it has no open membership, one starting on the run's as-of date.  (The
\* model keeps one membership per symbol, the latest.)
EnsuredMembership ==
    [s \in Tickers |->
        IF s \in SeqToSet(config.constituents)
           /\ ~(membership[s].start # NoDate /\ membership[s].end = NoDate)
        THEN [start |-> run_as_of, end |-> NoDate]
        ELSE membership[s]]

\* One call IngestionService.ingest(start, end): _active_tickers (with
\* mark_survivorship when nothing is active), _ensure_symbols, the provider's
\* frames for the tickers it has data for, _persist_prices.
Ingest(start, end) ==
    /\ bt.pc = "idle"
    /\ LET active == get_active_symbols(run_as_of)
       IN  /\ survivorship_flag' = (survivorship_flag \/ active = {})
           /\ symbols' = symbols \cup SeqToSet(config.constituents)
           /\ membership' = EnsuredMembership
           /\ \E order \in Orders(active), path \in PricePaths :
                LET tickers == IF active = {} THEN config.constituents ELSE order
                IN  \E returned \in SUBSET SeqToSet(tickers) :
                LET c == Commit(db, PriceRows(Filter(tickers, returned), path, start, end))
                IN  /\ db' = c.rows
                    /\ last' = [op |-> "ingest", start |-> start, end |-> end,
                                requested |-> SeqToSet(tickers),
                                err |-> IF c.ok THEN "none" ELSE "IntegrityError"]
    /\ UNCHANGED <<config, run_as_of, bt, stage, store, cli>>

\* run_backtest(start_date, end_date) up to the start of its loop: the
\* schedule, the check of its length, the initial capital and equity point.
BacktestStart(start_date, end_date) ==
    /\ bt.pc = "idle"
    /\ \E out \in MonthEndDatesOutcomes(start_date, end_date) :
       LET schedule == out.dates
       IN  IF out.err # "none" \/ Len(schedule) < 2
           THEN /\ last' = [op |-> "run_backtest", start |-> start_date,
                            end |-> end_date, schedule |-> out,
                            ret |-> <<>>, err |-> "ValueError"]
                /\ bt' = bt
           ELSE /\ bt' = [pc |-> "signals", start |-> start_date, end |-> end_date,
                          schedule |-> schedule, idx |-> 1, capital |-> One,
                          equity_points |-> <<[date |-> start_date, capital |-> One]>>,
                          signals |-> <<>>, portfolio |-> <<>>]
                /\ last' = [op |-> "run_backtest", start |-> start_date,
                            end |-> end_date, schedule |-> out,
                            ret |-> <<>>, err |-> "running"]
    /\ UNCHANGED <<config, run_as_of, survivorship_flag, symbols, membership, db, stage, store, cli>>

\* An error raised inside the loop leaves run_backtest.
BtAbort(err) ==
    /\ bt' = IdleBt
    /\ last' = [last EXCEPT !.err = err]

\* One iteration, first half: self.run.as_of_date = rebalance_date and
\* build_signals(rebalance_date), which commits its own session.
BtSignals ==
    /\ bt.pc = "signals"
    /\ LET rebalance_date == bt.schedule[bt.idx]
       IN  /\ run_as_of' = rebalance_date
           /\ \E order \in Orders(symbols), pick \in FactorPicks :
                LET out == BuildSignalsOutcome(rebalance_date, rebalance_date, order, pick)
                IN  /\ db' = out.rows
                    /\ IF out.err = "none"
                       THEN /\ bt' = [bt EXCEPT !.pc = "build", !.signals = out.ret]
                            /\ last' = last
                       ELSE BtAbort(out.err)
    /\ UNCHANGED <<config, survivorship_flag, symbols, membership, stage, store, cli>>

\* One iteration, second half: portfolio_builder.build(signals), which
\* commits its own session, then the period return and the equity point.
BtBuild ==
    /\ bt.pc = "build"
    /\ LET rebalance_date == bt.schedule[bt.idx]
           next_rebalance == bt.schedule[bt.idx + 1]
           out == BuildOutcome(bt.signals, DefaultTopN, run_as_of)
           period_return == PeriodReturn(out.ret, rebalance_date, next_rebalance)
           capital == RMul(bt.capital, RAdd(One, period_return))
       IN  /\ db' = out.rows
           /\ IF out.err = "none"
              THEN /\ bt' = [bt EXCEPT
                               !.pc = IF bt.idx + 1 < Len(bt.schedule)
                                      THEN "signals" ELSE "persist",
                               !.idx = bt.idx + 1,
                               !.capital = capital,
                               !.equity_points =
                                   Append(bt.equity_points,
                                          [date |-> next_rebalance, capital |-> capital]),
                               !.portfolio = out.ret]
                   /\ last' = last
              ELSE BtAbort(out.err)
    /\ UNCHANGED <<config, run_as_of, survivorship_flag, symbols, membership, stage, store, cli>>

\* After the loop: compute_summary, _persist_results, the returned report.
BtFinish ==
    /\ bt.pc = "persist"
    /\ LET c == Commit(db, ResultRows(bt.start, bt.end, bt.equity_points))
       IN  /\ db' = c.rows
           /\ last' = [last EXCEPT
                         !.ret = IF c.ok THEN bt.equity_points ELSE <<>>,
                         !.err = IF c.ok THEN "none" ELSE "IntegrityError"]
    /\ bt' = IdleBt
    /\ UNCHANGED <<config, run_as_of, survivorship_flag, symbols, membership, stage, store, cli>>

-----------------------------------------------------------------------------
(* PortfolioBuilder.build on bounded inputs *)

ScoreVals == {R(-1), Zero, One, R(2)}
LiquidityVals == {Zero, One}
PctOfAdvVals == {5, 50}
SignalSet == [ticker : Tickers, score : ScoreVals, liquidity : LiquidityVals]
SignalInputs == UNION {[1..n -> SignalSet] : n \in 0..MaxSignals}

BaseConfig ==
    [constituents |-> <<"A", "B">>,
     max_weight_pct_of_adv |-> 5,
     median_traded_value_clp |-> 0,
     factor_weights |-> <<>>,
     transaction_cost_bps |-> 20,
     slippage_bps |-> 5,
     retries |-> 3]

\* A position that an earlier build of the run persisted.
EarlierPosition ==
    [t |-> "position", run_id |-> RunId, symbol |-> "A", rebalance_date |-> 1,
     weight |-> One, liquidity_cap |-> Rat(1, 20)]

InitBuild ==
    /\ config \in {[BaseConfig EXCEPT !.max_weight_pct_of_adv = p] : p \in PctOfAdvVals}
    /\ run_as_of \in Days
    /\ survivorship_flag = FALSE
    /\ symbols = Tickers
    /\ membership = [s \in Tickers |-> NoMembership]
    /\ db \in {{}, {EarlierPosition}}
    /\ bt = IdleBt
    /\ stage = "initialized"
    /\ store = {}
    /\ cli = NoCli
    /\ last = [op |-> "none", err |-> "none"]

\* One call for each input.
NextBuild ==
    /\ last.op = "none"
    /\ \E signals \in SignalInputs, top_n \in 0..MaxTopN : Build(signals, top_n)

SpecBuild == InitBuild /\ [][NextBuild]_vars

Returned(op) == last.op = op /\ last.err = "none"

\* C1: every non-empty list of positions that build returns has weights that
\* sum to 1.
C1_WeightsSumToOne ==
    (Returned("build") /\ last.ret # <<>>) => RSum(Weights(last.ret)) = One

\* C2: every position that build returns, and every position row persisted,
\* has a weight between 0 and 1 inclusive.
C2_WeightsInUnitInterval ==
    /\ Returned("build") =>
          \A i \in 1..Len(last.ret) :
              RLeq(Zero, last.ret[i].weight) /\ RLeq(last.ret[i].weight, One)
    /\ \A r \in Table("position") : RLeq(Zero, r.weight) /\ RLeq(r.weight, One)

-----------------------------------------------------------------------------
(* SignalGenerator.build_signals over bounded database states *)

FactorRow(s, n, d, v) ==
    [t |-> "factor", symbol |-> s, run_id |-> RunId, factor_name |-> n,
     value_date |-> d, value |-> v]

LiquidityRow(id, s, d, v) ==
    [t |-> "liquidity", id |-> id, symbol |-> s, run_id |-> RunId,
     lookback_days |-> 90, median_traded_value_clp |-> v, metric_date |-> d]

\* Factor rows FactorEngine.compute can have left for a symbol: none, one
\* value on day 1, or a value on each of days 1 and 2.
Momentum12Options(s) ==
    {{},
     {FactorRow(s, "momentum_12_1", 1, One)},
     {FactorRow(s, "momentum_12_1", 1, Zero), FactorRow(s, "momentum_12_1", 2, One)}}

Momentum6Options(s) == {{}, {FactorRow(s, "momentum_6_1", 1, One)}}

\* Liquidity metrics of a symbol: none, one above the threshold, or one above
\* the threshold followed by a later one below it.
LiquidityOptions(s) ==
    LET base == IF s = "A" THEN 0 ELSE 2
    IN  {{},
         {LiquidityRow(base + 1, s, 1, One)},
         {LiquidityRow(base + 1, s, 1, One), LiquidityRow(base + 2, s, 2, Zero)}}

MembershipOptions == {[start |-> 1, end |-> NoDate], [start |-> 2, end |-> 2]}

SignalsConfigs ==
    {[BaseConfig EXCEPT !.median_traded_value_clp = 1, !.factor_weights = w] :
        w \in {[n \in {"momentum_12_1"} |-> One],
               [n \in {"momentum_12_1", "momentum_6_1"} |->
                   IF n = "momentum_12_1" THEN One ELSE R(-1)]}}

SymbolRowOptions(s) ==
    {a \cup b \cup c :
        a \in Momentum12Options(s), b \in Momentum6Options(s), c \in LiquidityOptions(s)}

SignalsDbStates ==
    {UNION {f[s] : s \in Tickers} :
        f \in {g \in [Tickers -> UNION {SymbolRowOptions(s) : s \in Tickers}] :
                 \A s \in Tickers : g[s] \in SymbolRowOptions(s)}}

InitSignals ==
    /\ config \in SignalsConfigs
    /\ run_as_of \in 1..2
    /\ survivorship_flag = FALSE
    /\ symbols = Tickers
    /\ membership \in [Tickers -> MembershipOptions]
    /\ db \in {d \in SignalsDbStates :
                 \A r \in d : r.t = "factor" => r.factor_name \in DOMAIN config.factor_weights}
    /\ bt = IdleBt
    /\ stage = "initialized"
    /\ store = {}
    /\ cli = NoCli
    /\ last = [op |-> "none", err |-> "none"]

NextSignals == \E as_of \in 1..MaxAsOf : BuildSignals(as_of)

SpecSignals == InitSignals /\ [][NextSignals]_vars

\* The symbols build_signals keeps on a cache miss: active as of the run's
\* as-of date, latest liquidity metric at or above the threshold, and a value
\* for every configured factor.
QualifyingSymbols ==
    {s \in get_active_symbols(run_as_of) :
        /\ _passes_liquidity(_latest_liquidity(s))
        /\ \A n \in FactorNames : FactorRows(s, n) # {}}

TickersOf(signals) == {signals[i].ticker : i \in 1..Len(signals)}

\* C4: a second build_signals call for the same as_of, right after one that
\* returned, raises no error, returns the same sequence and adds no row.
C4_SecondCallIdempotent ==
    [][(/\ last.op = "build_signals" /\ last.err = "none"
        /\ last'.op = "build_signals" /\ last'.as_of = last.as_of)
       => (last'.err = "none" /\ last'.ret = last.ret /\ db' = db)]_vars

\* C9: a cache-miss build_signals call returns exactly one signal for each
\* qualifying symbol and none for any other symbol.
C9_CacheMissReturnsQualifying ==
    (last.op = "build_signals" /\ ~last.cached) =>
        /\ last.err = "none"
        /\ TickersOf(last.ret) = QualifyingSymbols
        /\ Len(last.ret) = Cardinality(QualifyingSymbols)

\* C10: the sequence build_signals returns is ordered by non-increasing score,
\* fresh or cached, and a fresh score is the weighted sum of factor values.
C10_SortedByScore ==
    Returned("build_signals") =>
        /\ \A i \in 1..Len(last.ret), j \in 1..Len(last.ret) :
              i < j => RLeq(last.ret[j].score, last.ret[i].score)
        /\ ~last.cached =>
              \A i \in 1..Len(last.ret) : \E pick \in FactorPicks :
                  last.ret[i].score = _compose_score(last.ret[i].ticker, pick)

\* C10 witness: a fresh and a cached result that each rank two signals of
\* different scores.
C10_Witness ==
    /\ Returned("build_signals")
    /\ last.cached
    /\ Len(last.ret) = 2
    /\ last.ret[1].score # last.ret[2].score

-----------------------------------------------------------------------------
(* BacktestRunner.run_backtest on bounded databases *)

PriceRow(s, d, close) ==
    [t |-> "price", symbol |-> s, run_id |-> RunId, price_date |-> d,
     adj_close |-> close, volume |-> One]

\* Price histories: rising from 100 to 110 after the first rebalance, flat,
\* only one old price, none.
Rising(s) == {PriceRow(s, 7, R(100)), PriceRow(s, 8, R(110)), PriceRow(s, 9, R(110))}
Flat(s) == {PriceRow(s, 7, R(100)), PriceRow(s, 8, R(100)), PriceRow(s, 9, R(100))}
OldOnly(s) == {PriceRow(s, 3, R(100))}

BacktestConfigs ==
    {[BaseConfig EXCEPT !.factor_weights = [n \in {"momentum_12_1"} |-> One],
                        !.transaction_cost_bps = c[1], !.slippage_bps = c[2]] :
        c \in {<<20, 5>>, <<0, 0>>}}

BacktestDbStates ==
    {fa \cup fb \cup la \cup lb \cup pa \cup pb :
        fa \in {{FactorRow("A", "momentum_12_1", 1, R(2))}},
        fb \in {{}, {FactorRow("B", "momentum_12_1", 1, One)},
                {FactorRow("B", "momentum_12_1", 1, R(-1))}},
        la \in {{LiquidityRow(1, "A", 1, One)}},
        lb \in {{LiquidityRow(2, "B", 1, Zero)}, {LiquidityRow(2, "B", 1, One)}},
        pa \in {Rising("A"), Flat("A"), OldOnly("A")},
        pb \in {Flat("B"), {}}}

InitBacktest ==
    /\ config \in BacktestConfigs
    /\ run_as_of = 1
    /\ survivorship_flag = FALSE
    /\ symbols = Tickers
    /\ membership \in [Tickers -> {[start |-> 1, end |-> NoDate],
                                   [start |-> 2 * DaysPerMonth, end |-> NoDate]}]
    /\ db \in BacktestDbStates
    /\ bt = IdleBt
    /\ stage = "initialized"
    /\ store = {}
    /\ cli = NoCli
    /\ last = [op |-> "none", err |-> "none"]

\* One run_backtest call per behaviour, for any start and end date.
NextBacktest ==
    \/ /\ last.op = "none"
       /\ \E start_date \in Days, end_date \in Days : BacktestStart(start_date, end_date)
    \/ BtSignals
    \/ BtBuild
    \/ BtFinish

SpecBacktest == InitBacktest /\ [][NextBacktest]_vars

\* A step of the backtest loop that completes the period of bt.idx.
PeriodDone == bt.pc = "build" /\ bt'.pc \in {"signals", "persist"}

\* Cost of one period, (transaction_cost_bps + slippage_bps) / 10000.
PeriodCost == Rat(config.transaction_cost_bps + config.slippage_bps, 10000)

\* The positions of the period's portfolio that have both prices, and the
\* sum over them of weight * (exit / entry - 1).
PricedPositions == Contributing(bt'.portfolio, next_trading_day(bt.schedule[bt.idx]),
                                bt.schedule[bt.idx + 1])
PricedReturn == TotalReturn(bt'.portfolio, next_trading_day(bt.schedule[bt.idx]),
                            bt.schedule[bt.idx + 1])
PricedWeight == SumAt(Weights(bt'.portfolio), PricedPositions)

\* C3 as stated: in every period whose portfolio has a position with both
\* prices, capital is multiplied by 1 + sum of weight * (exit/entry - 1) - cost.
C3_CapitalUpdateAsStated ==
    [][(PeriodDone /\ PricedPositions # {})
       => bt'.capital = RMul(bt.capital, RSub(RAdd(One, PricedReturn), PeriodCost))]_vars

\* C3 amended: the update of C3 applies when the weights of the positions
\* with both prices do not sum to zero; when they do, capital is unchanged
\* and no cost is charged.
C3_CapitalUpdate ==
    [][(PeriodDone /\ PricedPositions # {})
       => IF PricedWeight # Zero
          THEN bt'.capital = RMul(bt.capital, RSub(RAdd(One, PricedReturn), PeriodCost))
          ELSE bt'.capital = bt.capital]_vars

\* C3 witness: one period, one position of weight 1 bought at 100 and sold
\* at 110 with zero costs, capital 1.10 afterwards.
C3_Witness ==
    /\ bt.pc = "persist"
    /\ Len(bt.equity_points) = 2
    /\ Len(bt.portfolio) = 1
    /\ bt.portfolio[1].weight = One
    /\ config.transaction_cost_bps + config.slippage_bps = 0
    /\ bt.capital = Rat(11, 10)

\* The number of dates of the schedule of (start, end): the month-ends of
\* the range, plus end when it is not one of them.
ScheduleLength(start, end) ==
    LET ends == {d \in start..end : IsMonthEnd(d)}
    IN  Cardinality(ends) + (IF end \in ends THEN 0 ELSE 1)

\* C7: run_backtest with a schedule of fewer than two dates raises
\* ValueError, writes no row, builds nothing and leaves the as-of date alone.
C7_ShortScheduleRejected ==
    [][(/\ bt.pc = "idle" /\ last' # last /\ last'.op = "run_backtest"
        /\ ScheduleLength(last'.start, last'.end) < 2)
       => (/\ last'.err = "ValueError"
           /\ db' = db
           /\ run_as_of' = run_as_of
           /\ bt' = IdleBt)]_vars

\* C7 witness: a rejected backtest over a range that holds one month-end.
C7_Witness ==
    /\ last.op = "run_backtest"
    /\ last.err = "ValueError"
    /\ last.start < last.end
    /\ ScheduleLength(last.start, last.end) < 2
    /\ bt = IdleBt
    /\ stage = "initialized"
    /\ store = {}
    /\ cli = NoCli

\* C8: when the portfolio built at a rebalance date is empty, capital is
\* carried to next_rebalance, the equity point (next_rebalance, capital) is
\* appended and the loop goes on to the next period.
C8_EmptyPortfolioCarries ==
    [][(bt.pc = "build" /\ BuildPositions(bt.signals, DefaultTopN) = <<>>)
       => (/\ bt'.pc = (IF bt.idx + 1 < Len(bt.schedule) THEN "signals" ELSE "persist")
           /\ bt'.idx = bt.idx + 1
           /\ bt'.capital = bt.capital
           /\ bt'.equity_points =
                  Append(bt.equity_points,
                         [date |-> bt.schedule[bt.idx + 1], capital |-> bt.capital]))]_vars

\* C8 witness: the first period had an empty portfolio, its equity point is
\* there and the loop is at the signals of the second period.
C8_Witness ==
    /\ bt.pc = "signals"
    /\ bt.idx = 2
    /\ bt.portfolio = <<>>
    /\ Len(bt.equity_points) = 2
    /\ bt.equity_points[2] = [date |-> bt.schedule[2], capital |-> One]
    /\ config.transaction_cost_bps > 0

-----------------------------------------------------------------------------
(* The pipeline: ingest, compute, build_signals, build, run_backtest *)

\* Dates the pipeline is driven with: the first two month-ends as as-of
\* dates, three ingestion ranges of which the second overlaps the other two,
\* and backtests over two periods, one period and no period.
PipelineDays == {DaysPerMonth, 2 * DaysPerMonth}
IngestRanges ==
    {<<1, DaysPerMonth>>, <<DaysPerMonth, 2 * DaysPerMonth>>, <<2 * DaysPerMonth, MaxDay>>}
BacktestRanges == {<<1, MaxDay>>, <<MaxDay, MaxDay>>}

PipelineConfig ==
    [BaseConfig EXCEPT !.constituents = <<"A">>,
                       !.median_traded_value_clp = 20000000,
                       !.factor_weights = [n \in {"max_drawdown"} |-> One]]

\* The state after create_run(as_of) on an empty database.
Init ==
    /\ config = PipelineConfig
    /\ run_as_of \in PipelineDays
    /\ survivorship_flag = FALSE
    /\ symbols = {}
    /\ membership = [s \in Tickers |-> NoMembership]
    /\ db = {}
    /\ bt = IdleBt
    /\ stage = "initialized"
    /\ store = {}
    /\ cli = NoCli
    /\ last = [op |-> "none", err |-> "none"]

Next ==
    \/ \E r \in IngestRanges : Ingest(r[1], r[2])
    \/ \E as_of \in PipelineDays : Compute(as_of)
    \/ \E as_of \in PipelineDays : BuildSignals(as_of)
    \/ /\ Returned("build_signals")
       /\ Build(last.ret, DefaultTopN)
    \/ \E r \in BacktestRanges : BacktestStart(r[1], r[2])
    \/ BtSignals
    \/ BtBuild
    \/ BtFinish

Spec == Init /\ [][Next]_vars

\* A step that is one call of the operation op.
Called(op) == bt.pc = "idle" /\ last' # last /\ last'.op = op

\* C5 as stated: compute run again for an as_of date that already has factor
\* values of the run, or build run again for a rebalance date that already
\* has positions of the run, completes without a duplicate-key error.
C5_RerunUpserts ==
    [][/\ (Called("compute")
           /\ \E r \in Table("factor") : r.value_date = last'.as_of)
          => last'.err = "none"
       /\ (Called("build")
           /\ \E r \in Table("position") : r.rebalance_date = run_as_of)
          => last'.err = "none"]_vars

\* C6: a compute or an ingest that fails leaves the database as it was; rows
\* it wrote are visible only when it succeeded.  Equity points and the
\* backtest result change only in a run_backtest that returns.
C6_FailedUnitLeavesNoRows ==
    [][/\ (Called("compute") \/ Called("ingest"))
          => (last'.err \in {"none", "IntegrityError"}
              /\ (last'.err # "none" => db' = db))
       /\ (bt.pc # "idle" /\ ~(bt'.pc = "idle" /\ last'.err = "none"))
          => (/\ Table("equity")' = Table("equity")
              /\ Table("result")' = Table("result")
              /\ (bt'.pc = "idle" => last'.err \in {"IntegrityError"}))]_vars

\* C6 witness: a compute failed on a duplicate key although enough prices
\* were there for a momentum value it had not stored before, and that value
\* is not in the database.
C6_Witness ==
    /\ last.op = "compute"
    /\ last.err = "IntegrityError"
    /\ "A" \in get_active_symbols(run_as_of)
    /\ Len(_load_prices("A", last.as_of)) >= LookbackLong
    /\ ~\E r \in FactorRows("A", "momentum_12_1") : r.value_date = last.as_of

-----------------------------------------------------------------------------
(* Claims on the pricing of a backtest period *)

\* The first Monday-to-Friday date strictly after d.
FirstWeekdayAfter(d) ==
    CHOOSE t \in (d + 1)..(d + 3) :
        /\ Weekday(t) \in 0..4
        /\ \A e \in (d + 1)..(t - 1) : Weekday(e) \in {5, 6}

\* The observations of ticker s dated from `from` on / up to `to`.
ObservedFrom(s, from) == {r \in Table("price") : r.symbol = s /\ r.price_date >= from}
ObservedUpTo(s, to) == {r \in Table("price") : r.symbol = s /\ r.price_date <= to}

\* The positions of a portfolio with an observation on or after the trade
\* date and one on or before next_rebalance.
WithBothPrices(portfolio, trade, next_rebalance) ==
    {i \in 1..Len(portfolio) :
        /\ ObservedFrom(portfolio[i].ticker, trade) # {}
        /\ ObservedUpTo(portfolio[i].ticker, next_rebalance) # {}}

\* weight * (exit / entry - 1) with the entry price of the earliest
\* observation from the trade date on and the exit price of the latest
\* observation up to next_rebalance.
Contribution(position, trade, next_rebalance) ==
    LET entry == CHOOSE r \in ObservedFrom(position.ticker, trade) :
                     \A q \in ObservedFrom(position.ticker, trade) :
                         r.price_date <= q.price_date
        exit == CHOOSE r \in ObservedUpTo(position.ticker, next_rebalance) :
                    \A q \in ObservedUpTo(position.ticker, next_rebalance) :
                        r.price_date >= q.price_date
    IN  RMul(position.weight, RSub(RDiv(exit.adj_close, entry.adj_close), One))

\* The return of a period by C11: the contributions of the positions with
\* both prices, less the period's cost, or nothing when their weights sum to
\* zero (C3 as amended).
ExpectedPeriodReturn(portfolio, rebalance_date, next_rebalance) ==
    LET trade == FirstWeekdayAfter(rebalance_date)
        priced == WithBothPrices(portfolio, trade, next_rebalance)
        parts == [i \in 1..Len(portfolio) |->
                     IF i \in priced
                     THEN Contribution(portfolio[i], trade, next_rebalance)
                     ELSE Zero]
    IN  IF SumAt(Weights(portfolio), priced) = Zero THEN Zero
        ELSE RSub(SumAt(parts, priced), PeriodCost)

\* C11: in a period with a non-empty portfolio the trade date is the first
\* weekday after the rebalance date, a position enters at its earliest price
\* on or after the trade date and exits at its latest price on or before
\* next_rebalance, and a position lacking either price contributes nothing.
C11_TradeDateAndPrices ==
    [][(PeriodDone /\ bt'.portfolio # <<>>)
       => bt'.capital =
             RMul(bt.capital,
                  RAdd(One, ExpectedPeriodReturn(bt'.portfolio, bt.schedule[bt.idx],
                                                 bt.schedule[bt.idx + 1])))]_vars

\* C11 witness: a period that began before a weekend is done; one of its two
\* positions had both prices and moved the capital, the other had none.
C11_Witness ==
    /\ bt.pc \in {"signals", "persist"}
    /\ bt.idx = 2
    /\ Len(bt.portfolio) = 2
    /\ FirstWeekdayAfter(bt.schedule[1]) > bt.schedule[1] + 1
    /\ Cardinality(WithBothPrices(bt.portfolio, FirstWeekdayAfter(bt.schedule[1]),
                                  bt.schedule[2])) = 1
    /\ bt.capital # One

-----------------------------------------------------------------------------
(* Claims on PortfolioBuilder.build *)

\* C12 as stated: before renormalisation every weight is between 0 and the
\* position's liquidity cap, and a final weight exceeds its cap only if
\* every selected position had its provisional weight cut down to the cap.
C12_WeightsWithinCaps ==
    Returned("build") =>
        LET selected == Selected(last.signals, last.top_n)
            capped == CappedPositions(selected)
        IN  /\ \A i \in 1..Len(capped) :
                  /\ RLeq(Zero, capped[i].weight)
                  /\ RLeq(capped[i].weight, capped[i].liquidity_share)
            /\ (\E i \in 1..Len(last.ret) :
                    RLess(last.ret[i].liquidity_share, last.ret[i].weight))
               => \A j \in 1..Len(selected) :
                      RLess(_liquidity_cap(selected[j]), ProvisionalWeight(selected, j))

\* The weights C13 describes for the first n signals: 1/n or score/total,
\* cut to the cap, which is 0 without liquidity and max_weight_pct_of_adv/100
\* with it.
CapOf(signal) ==
    IF RLeq(signal.liquidity, Zero) THEN Zero ELSE Rat(config.max_weight_pct_of_adv, 100)

CutWeights(signals, n) ==
    LET total == RSum([i \in 1..n |-> signals[i].score])
    IN  [i \in 1..n |->
            RMin(IF total = Zero THEN Rat(1, n) ELSE RDiv(signals[i].score, total),
                 CapOf(signals[i]))]

\* C13: build returns one position per signal among the first top_n, in
\* order, with the cap as liquidity_share and the cut weight divided by the
\* sum of the cut weights when that sum is positive, the cut weight otherwise.
C13_BuildComputesWeights ==
    Returned("build") =>
        LET n == Min(Len(last.signals), last.top_n)
            cut == CutWeights(last.signals, n)
            sum == RSum(cut)
        IN  /\ Len(last.ret) = n
            /\ \A i \in 1..n :
                  /\ last.ret[i].ticker = last.signals[i].ticker
                  /\ last.ret[i].liquidity_share = CapOf(last.signals[i])
                  /\ last.ret[i].weight =
                        (IF RLess(Zero, sum) THEN RDiv(cut[i], sum) ELSE cut[i])

\* C13 witness: two signals, top_n = 1, and the one position returned was
\* cut to its cap and renormalised to 1.
C13_Witness ==
    /\ Returned("build")
    /\ Len(last.signals) = 2
    /\ last.top_n = 1
    /\ Len(last.ret) = 1
    /\ last.ret[1].weight = One
    /\ RLess(last.ret[1].liquidity_share, One)

-----------------------------------------------------------------------------
(* Claims on a backtest over flat prices *)

\* No symbol's price ever moves.
FlatPrices ==
    \A r \in Table("price"), q \in Table("price") :
        r.symbol = q.symbol => r.adj_close = q.adj_close

\* The period that a PeriodDone step completes had a portfolio all of whose
\* positions have an entry and an exit price.
AllPriced ==
    /\ bt'.portfolio # <<>>
    /\ WithBothPrices(bt'.portfolio, FirstWeekdayAfter(bt.schedule[bt.idx]),
                      bt.schedule[bt.idx + 1]) = 1..Len(bt'.portfolio)

\* C14 as stated: over flat prices a period whose positions all have prices
\* returns -(transaction_cost_bps + slippage_bps)/10000 and the equity curve
\* strictly decreases.
C14_FlatPricesAsStated ==
    [][(PeriodDone /\ FlatPrices /\ AllPriced)
       => (/\ bt'.capital = RMul(bt.capital, RSub(One, PeriodCost))
           /\ RLess(bt'.capital, bt.capital))]_vars

\* C14 amended: the period returns minus the cost when the weights of the
\* portfolio do not sum to zero and nothing when they do; the equity curve
\* strictly decreases over the period when it returns minus the cost and the
\* cost is positive.
C14_FlatPricesCostOnly ==
    [][(PeriodDone /\ FlatPrices /\ AllPriced)
       => IF RSum(Weights(bt'.portfolio)) # Zero
          THEN /\ bt'.capital = RMul(bt.capital, RSub(One, PeriodCost))
               /\ RLess(Zero, PeriodCost) => RLess(bt'.capital, bt.capital)
          ELSE bt'.capital = bt.capital]_vars

\* C14 witness: two periods over flat prices, each with a portfolio whose
\* positions had prices, each charged the positive cost once.
C14_Witness ==
    /\ bt.pc = "persist"
    /\ FlatPrices
    /\ Len(bt.equity_points) = 3
    /\ Len(bt.portfolio) = 2
    /\ RLess(Zero, PeriodCost)
    /\ bt.equity_points[1].capital = One
    /\ bt.equity_points[2].capital = RSub(One, PeriodCost)
    /\ bt.equity_points[3].capital = RMul(RSub(One, PeriodCost), RSub(One, PeriodCost))

-----------------------------------------------------------------------------
(* Performance summary of an equity curve *)

MaxCurve == 3
PeriodsPerYear == 12

\* Positive capital values of an equity curve.
CurveVals == {Rat(1, 2), One, Rat(3, 2), R(2)}

RECURSIVE RPow(_, _)
RPow(x, n) == IF n = 0 THEN One ELSE RMul(x, RPow(x, n - 1))

\* numpy's std (ddof = 0) squared, of a non-empty sequence.
PopulationVariance(xs) ==
    LET mean == RDiv(RSum(xs), R(Len(xs)))
        sq == [i \in 1..Len(xs) |-> RMul(RSub(xs[i], mean), RSub(xs[i], mean))]
    IN  RDiv(RSum(sq), R(Len(xs)))

\* np.maximum.accumulate(equity_curve)[i]
RECURSIVE CurveRunningMax(_, _)
CurveRunningMax(equity_curve, i) ==
    IF i = 1 THEN equity_curve[1]
    ELSE LET m == CurveRunningMax(equity_curve, i - 1)
         IN  IF RLess(m, equity_curve[i]) THEN equity_curve[i] ELSE m

\* Variant of Periods that counts the steps between the points.
PeriodsBetweenPoints(equity_curve) == Max(Len(equity_curve) - 1, 0)

\* The periods field of the summary of a non-empty curve.
Periods(equity_curve) == Len(equity_curve)

\* compute_summary.  1 / years is periods_per_year / max(len - 1, 1), a whole
\* number for the curves of the model, so the power is exact.  volatility
\* holds the square of the value of the code, periods_per_year * variance,
\* which is zero exactly when the value of the code is.
compute_summary(equity_curve, periods_per_year) ==
    IF equity_curve = <<>>
    THEN [cagr |-> Zero, volatility |-> Zero, max_drawdown |-> Zero, periods |-> 0]
    ELSE LET n == Len(equity_curve)
             returns == [i \in 1..(n - 1) |->
                            RDiv(RSub(equity_curve[i + 1], equity_curve[i]),
                                 equity_curve[i])]
             compounded == RDiv(equity_curve[n], equity_curve[1])
             steps == Max(n - 1, 1)
             cagr == IF RLess(Zero, compounded)
                     THEN RSub(RPow(compounded, periods_per_year \div steps), One)
                     ELSE Zero
             volatility == IF Len(returns) > 0
                           THEN RMul(R(periods_per_year), PopulationVariance(returns))
                           ELSE Zero
             drawdowns == [i \in 1..n |->
                              RSub(RDiv(equity_curve[i], CurveRunningMax(equity_curve, i)),
                                   One)]
         IN  [cagr |-> cagr, volatility |-> volatility,
              max_drawdown |-> RMinOf(drawdowns), periods |-> Periods(equity_curve)]

RECURSIVE Curves(_)
Curves(n) ==
    IF n = 0 THEN {<<>>}
    ELSE Curves(n - 1) \cup {Append(c, v) : c \in Curves(n - 1), v \in CurveVals}

\* One call compute_summary(equity_curve).
ComputeSummary(equity_curve) ==
    /\ bt.pc = "idle"
    /\ last' = [op |-> "compute_summary", equity_curve |-> equity_curve,
                ret |-> compute_summary(equity_curve, PeriodsPerYear), err |-> "none"]
    /\ UNCHANGED <<config, run_as_of, survivorship_flag, symbols, membership, db, bt, stage, store, cli>>

InitSummary ==
    /\ config = BaseConfig
    /\ run_as_of = 1
    /\ survivorship_flag = FALSE
    /\ symbols = Tickers
    /\ membership = [s \in Tickers |-> NoMembership]
    /\ db = {}
    /\ bt = IdleBt
    /\ stage = "initialized"
    /\ store = {}
    /\ cli = NoCli
    /\ last \in {[op |-> "none", equity_curve |-> c, err |-> "none"] : c \in Curves(MaxCurve)}

\* One call on the curve drawn at the start.
NextSummary ==
    /\ last.op = "none"
    /\ ComputeSummary(last.equity_curve)

SpecSummary == InitSummary /\ [][NextSummary]_vars

ZeroMetrics(summary) ==
    /\ summary.cagr = Zero
    /\ summary.volatility = Zero
    /\ summary.max_drawdown = Zero

\* C18: the summary of the empty curve has zero cagr, volatility and maximum
\* drawdown and periods = 0; the summary of the curve [1.0] has periods = 1
\* and zero cagr, volatility and maximum drawdown.
C18_EmptyAndSinglePoint ==
    Returned("compute_summary") =>
        /\ last.equity_curve = <<>> => (ZeroMetrics(last.ret) /\ last.ret.periods = 0)
        /\ last.equity_curve = <<One>> => (ZeroMetrics(last.ret) /\ last.ret.periods = 1)

\* C18 witness: compute_summary([1.0]) has returned a summary of one period.
C18_Witness ==
    /\ Returned("compute_summary")
    /\ last.equity_curve = <<One>>
    /\ last.ret.periods = 1
    /\ ZeroMetrics(last.ret)

\* C19: the summary of a curve of zero or one points is all zero with
\* periods = 0, and periods counts the N periods of an N+1-point curve.
C19_PeriodsCountSteps ==
    Returned("compute_summary") =>
        /\ Len(last.equity_curve) <= 1 => (ZeroMetrics(last.ret) /\ last.ret.periods = 0)
        /\ Len(last.equity_curve) >= 1 => last.ret.periods = Len(last.equity_curve) - 1

-----------------------------------------------------------------------------
(* Claims on the rebalance schedule *)

\* C15: month_end_dates(start, end) with start <= end returns a strictly
\* increasing list of every month-end in [start, end], followed by end when
\* end is not a month-end; its last element is end.
C15_MonthEndDates ==
    (last.op = "run_backtest" /\ last.start <= last.end) =>
        LET dates == last.schedule.dates
        IN  /\ last.schedule.err = "none"
            /\ dates # <<>>
            /\ \A i \in 1..(Len(dates) - 1) : dates[i] < dates[i + 1]
            /\ SeqToSet(dates)
                   = {d \in last.start..last.end : IsMonthEnd(d)} \cup {last.end}
            /\ dates[Len(dates)] = last.end

-----------------------------------------------------------------------------
(* Claims on build with nothing to select *)

\* C16: build called with an empty signal list returns an empty list and
\* leaves the persisted positions as they were.
C16_EmptySignalsWriteNothing ==
    [][(last'.op = "build" /\ last'.signals = <<>>)
       => (/\ last'.ret = <<>>
           /\ last'.err = "none"
           /\ db' = db)]_vars

\* C16 witness: build([]) has returned over a table that held a position.
C16_Witness ==
    /\ Returned("build")
    /\ last.signals = <<>>
    /\ last.ret = <<>>
    /\ Table("position") = {EarlierPosition}

-----------------------------------------------------------------------------
(* FactorEngine.compute over bounded price histories *)

MaxHistory == 5

\* The prices of a symbol on days 1..n, on one of the provider's paths.
Histories(s) ==
    {SeqToSet(FrameRows(s, path, 1, n)) : path \in PricePaths, n \in 0..MaxHistory}

InitCompute ==
    /\ config = BaseConfig
    /\ run_as_of = MaxDay
    /\ survivorship_flag = FALSE
    /\ symbols = Tickers
    /\ membership = [s \in Tickers |-> [start |-> 1, end |-> NoDate]]
    /\ db \in {ha \cup hb : ha \in Histories("A"), hb \in Histories("B")}
    /\ bt = IdleBt
    /\ stage = "initialized"
    /\ store = {}
    /\ cli = NoCli
    /\ last = [op |-> "none", err |-> "none"]

\* One call compute(as_of), early in the histories or after them.
NextCompute ==
    /\ last.op = "none"
    /\ \E as_of \in {LookbackShort, MaxDay} : Compute(as_of)

SpecCompute == InitCompute /\ [][NextCompute]_vars

\* The dates of the observations of a symbol that compute(as_of) loads.
ObservationDates(s, as_of) ==
    {r.price_date : r \in {q \in PriceRowsOf(s) : q.price_date <= as_of}}

\* The adjusted close of the k-th observation from the end.
CloseFromEnd(s, as_of, k) ==
    LET dates == ObservationDates(s, as_of)
        d == CHOOSE x \in dates : Cardinality({y \in dates : y >= x}) = k
    IN  (CHOOSE r \in PriceRowsOf(s) : r.price_date = d).adj_close

FactorValuesOf(s, name, as_of) ==
    {r.value : r \in {q \in Table("factor") :
                          q.symbol = s /\ q.factor_name = name /\ q.value_date = as_of}}

MomentumFactors == {d \in SeqToSet(FactorDefinitions) : d.method = "momentum"}

\* What compute(as_of) has stored of a momentum factor for a symbol: nothing
\* for a history shorter than the lookback, last / lookback-th from the end
\* minus 1 otherwise.
MomentumAsClaimed(s, d, as_of) ==
    IF Cardinality(ObservationDates(s, as_of)) < d.lookback_days
    THEN FactorValuesOf(s, d.name, as_of) = {}
    ELSE FactorValuesOf(s, d.name, as_of)
            = {RSub(RDiv(CloseFromEnd(s, as_of, 1),
                         CloseFromEnd(s, as_of, d.lookback_days)), One)}

\* C17: a momentum factor over fewer observations than its lookback yields no
\* FactorValue row for that factor and symbol and no error, while the other
\* factors and symbols are still computed; with at least lookback
\* observations its value is last / lookback-th from the end - 1.
C17_ShortHistorySkipsMomentum ==
    last.op = "compute" =>
        /\ last.err = "none"
        /\ \A s \in symbols :
              /\ \A d \in MomentumFactors : MomentumAsClaimed(s, d, last.as_of)
              /\ ObservationDates(s, last.as_of) # {}
                    => /\ FactorValuesOf(s, "max_drawdown", last.as_of) # {}
                       /\ \E r \in Table("liquidity") :
                             r.symbol = s /\ r.metric_date = last.as_of

\* C17 witness: compute has skipped momentum_12_1 for A, whose history is
\* shorter than the lookback, stored A's drawdown and stored momentum_12_1
\* for B.
C17_Witness ==
    /\ Returned("compute")
    /\ ObservationDates("A", last.as_of) # {}
    /\ Cardinality(ObservationDates("A", last.as_of)) < LookbackLong
    /\ FactorValuesOf("A", "momentum_12_1", last.as_of) = {}
    /\ FactorValuesOf("A", "max_drawdown", last.as_of) # {}
    /\ Cardinality(ObservationDates("B", last.as_of)) >= LookbackLong
    /\ FactorValuesOf("B", "momentum_12_1", last.as_of) # {}

-----------------------------------------------------------------------------
(* IngestionService.ingest for a run created on a database that an earlier *)
(* run may have ingested into                                             *)

EarlierRunId == "r0"

\* What an earlier run with as-of date e left behind after ingesting "A"
\* over a range: the symbol, its membership from e, its prices.
EarlierIngests ==
    {[symbols |-> {"A"},
      membership |-> [s \in Tickers |->
                         IF s = "A" THEN [start |-> e, end |-> NoDate] ELSE NoMembership],
      db |-> {[row EXCEPT !.run_id = EarlierRunId] :
                 row \in SeqToSet(FrameRows("A", path, r[1], r[2]))}] :
        e \in PipelineDays, r \in IngestRanges, path \in PricePaths}

NoEarlierRun ==
    [symbols |-> {}, membership |-> [s \in Tickers |-> NoMembership], db |-> {}]

\* The state after create_run(as_of, survivorship_flag = flag).
InitIngest ==
    /\ config \in {[PipelineConfig EXCEPT !.constituents = c] : c \in {<<"A">>, <<"A", "B">>}}
    /\ run_as_of \in PipelineDays
    /\ survivorship_flag \in BOOLEAN
    /\ \E earlier \in EarlierIngests \cup {NoEarlierRun} :
         /\ symbols = earlier.symbols
         /\ membership = earlier.membership
         /\ db = earlier.db
    /\ bt = IdleBt
    /\ stage = "initialized"
    /\ store = {}
    /\ cli = NoCli
    /\ last = [op |-> "none", err |-> "none"]

NextIngest == \E r \in IngestRanges : Ingest(r[1], r[2])

SpecIngest == InitIngest /\ [][NextIngest]_vars

-----------------------------------------------------------------------------
(* Claims on the survivorship fallback of ingest *)

\* C20: ingest sets survivorship_flag exactly when no symbol is active as of
\* the run's as-of date; it then requests prices for every configured
\* constituent and proceeds without error.  When a symbol is active the flag
\* is left as it was and prices are requested for the active symbols only.
C20_SurvivorshipFallback ==
    [][Called("ingest")
       => LET active == get_active_symbols(run_as_of)
          IN  IF active = {}
              THEN /\ survivorship_flag'
                   /\ last'.requested = SeqToSet(config.constituents)
                   /\ last'.err = "none"
              ELSE /\ survivorship_flag' = survivorship_flag
                   /\ last'.requested = active]_vars

-----------------------------------------------------------------------------
(* The pipeline of a run on a database that holds the artifacts of an      *)
(* earlier run                                                             *)

\* What the earlier run left for "A": prices of the first month, and a
\* factor value, a liquidity metric, a signal, a position, an equity curve
\* and a backtest result of its own.
EarlierArtifacts ==
    {[row EXCEPT !.run_id = EarlierRunId] :
        row \in SeqToSet(FrameRows("A", "flat", 1, DaysPerMonth))}
    \cup {[t |-> "factor", symbol |-> "A", run_id |-> EarlierRunId,
            factor_name |-> "max_drawdown", value_date |-> DaysPerMonth,
            value |-> Rat(-1, 2)],
           [t |-> "liquidity", id |-> 1, symbol |-> "A", run_id |-> EarlierRunId,
            lookback_days |-> 90, median_traded_value_clp |-> R(30000000),
            metric_date |-> DaysPerMonth],
           [t |-> "signal", run_id |-> EarlierRunId, symbol |-> "A",
            as_of_date |-> DaysPerMonth, score |-> Rat(-1, 2),
            liquidity |-> R(30000000)],
           [t |-> "position", run_id |-> EarlierRunId, symbol |-> "A",
            rebalance_date |-> DaysPerMonth, weight |-> One,
            liquidity_cap |-> Rat(1, 20)],
           [t |-> "equity", run_id |-> EarlierRunId, point_date |-> 1,
            capital |-> One],
           [t |-> "equity", run_id |-> EarlierRunId, point_date |-> MaxDay,
            capital |-> One],
           [t |-> "result", run_id |-> EarlierRunId, start_date |-> 1,
            end_date |-> MaxDay, final_capital |-> One, periods |-> 2]}

\* The state after create_run(as_of) on the database of the earlier run.
InitRuns ==
    /\ config = PipelineConfig
    /\ run_as_of \in PipelineDays
    /\ survivorship_flag = FALSE
    /\ symbols = {"A"}
    /\ membership = [s \in Tickers |->
                        IF s = "A" THEN [start |-> DaysPerMonth, end |-> NoDate]
                        ELSE NoMembership]
    /\ db = EarlierArtifacts
    /\ bt = IdleBt
    /\ stage = "initialized"
    /\ store = {}
    /\ cli = NoCli
    /\ last = [op |-> "none", err |-> "none"]

SpecRuns == InitRuns /\ [][Next]_vars

\* The artifacts keyed to a run: everything but prices.
ArtifactsOf(run_id) == {r \in db : r.t # "price" /\ r.run_id = run_id}

\* C21: no operation of the run creates, changes or deletes an artifact
\* keyed to the earlier run, and every signal the run stores is composed from
\* a factor value and carries a liquidity metric keyed to the run itself.
C21_RunsAreIsolated ==
    [][/\ ArtifactsOf(EarlierRunId)' = ArtifactsOf(EarlierRunId)
       /\ \A sig \in Table("signal")' \ Table("signal") :
             /\ sig.run_id = RunId
             /\ \E f \in Table("factor") :
                   /\ f.run_id = RunId /\ f.symbol = sig.symbol
                   /\ f.factor_name = "max_drawdown"
                   /\ sig.score = RMul(config.factor_weights["max_drawdown"], f.value)
             /\ \E m \in Table("liquidity") :
                   /\ m.run_id = RunId /\ m.symbol = sig.symbol
                   /\ sig.liquidity = m.median_traded_value_clp]_vars

\* C21 witness: the run has stored a factor value, a signal, a position and
\* a backtest result of its own next to the artifacts of the earlier run.
C21_Witness ==
    /\ ArtifactsOf(EarlierRunId) # {}
    /\ \A t \in {"factor", "liquidity", "signal", "position", "equity", "result"} :
          \E r \in Table(t) : r.run_id = RunId

-----------------------------------------------------------------------------
(* BacktestRunner.run_backtest over a price that collapses or has a gap *)

\* A price that falls from 1000 to 1 after the first rebalance.
Crash(s) == {PriceRow(s, 7, R(1000)), PriceRow(s, 8, One), PriceRow(s, 9, One)}

\* A price observed before the first rebalance and after the second only.
Gapped(s) == {PriceRow(s, 3, R(100)), PriceRow(s, 9, R(110))}

CrashDbStates ==
    {fa \cup fb \cup la \cup lb \cup pa \cup pb :
        fa \in {{FactorRow("A", "momentum_12_1", 1, R(2))}},
        fb \in {{}, {FactorRow("B", "momentum_12_1", 1, One)}},
        la \in {{LiquidityRow(1, "A", 1, One)}},
        lb \in {{LiquidityRow(2, "B", 1, One)}},
        pa \in {Crash("A"), Rising("A"), Gapped("A")},
        pb \in {Flat("B"), {}}}

InitCrash ==
    /\ config \in BacktestConfigs
    /\ run_as_of = 1
    /\ survivorship_flag = FALSE
    /\ symbols = Tickers
    /\ membership = [s \in Tickers |-> [start |-> 1, end |-> NoDate]]
    /\ db \in CrashDbStates
    /\ bt = IdleBt
    /\ stage = "initialized"
    /\ store = {}
    /\ cli = NoCli
    /\ last = [op |-> "none", err |-> "none"]

SpecCrash == InitCrash /\ [][NextBacktest]_vars

-----------------------------------------------------------------------------
(* Claims on the capital of the equity curve *)

\* C22: every capital value of the equity curve of run_backtest is strictly
\* positive, during the run and in the curve it returns.
C22_CapitalStaysPositive ==
    /\ bt.pc # "idle" =>
          \A i \in 1..Len(bt.equity_points) : RLess(Zero, bt.equity_points[i].capital)
    /\ (last.op = "run_backtest" /\ last.err = "none") =>
          \A i \in 1..Len(last.ret) : RLess(Zero, last.ret[i].capital)

-----------------------------------------------------------------------------
(* OverridesService, the override store and load_config_bundle *)

MaxProposals == 2

\* Dotted field paths, as the parts field_path.split(".") gives.
FactorWeightField == <<"strategy", "factor_weights", "momentum_12_1">>
FactorWeightsField == <<"strategy", "factor_weights">>
RetriesField == <<"provider", "retries">>
OverrideFields == {FactorWeightField, FactorWeightsField, RetriesField}

\* The values proposals carry: strings, as Notion delivers them.
OverrideValues == {"0.55", "7"}

\* _coerce_value on those strings: float(value) when it holds a ".",
\* int(value) otherwise.
_coerce_value(value) ==
    CASE value = "0.55" -> Rat(55, 100)
      [] value = "7" -> R(7)

IsPrefix(p, q) == Len(p) <= Len(q) /\ SubSeq(q, 1, Len(p)) = p

\* OverrideStore.update_field on the leaves `data` of the file.  Walking the
\* parts with setdefault ends on a number when a leaf sits on a proper prefix
\* of the path; assigning into it raises and nothing is written.  Otherwise
\* the value replaces whatever was at the path.
update_field(data, parts, value) ==
    IF \E leaf \in data : Len(leaf.path) < Len(parts) /\ IsPrefix(leaf.path, parts)
    THEN [ok |-> FALSE, data |-> data]
    ELSE [ok |-> TRUE,
          data |-> {leaf \in data : ~IsPrefix(parts, leaf.path)}
                     \cup {[path |-> parts, value |-> value]}]

NextAuditId ==
    IF Table("audit") = {} THEN 1
    ELSE 1 + (CHOOSE r \in Table("audit") : \A q \in Table("audit") : q.id <= r.id).id

ShouldApply(proposal, allow_overrides, allowed_fields) ==
    allow_overrides /\ proposal.enabled /\ proposal.field \in allowed_fields

AuditRow(proposal, should_apply, id) ==
    [t |-> "audit", id |-> id, run_id |-> RunId, field |-> proposal.field,
     new_value |-> proposal.value, enabled |-> should_apply]

\* The loop of apply from proposal i on: acc holds the store file, the audit
\* rows added to the session, the counter and the skipped fields.  An error
\* of update_field leaves the loop with the file as it is by then.
RECURSIVE ApplyFrom(_, _, _, _, _)
ApplyFrom(proposals, i, allow_overrides, allowed_fields, acc) ==
    IF i > Len(proposals) THEN acc
    ELSE LET proposal == proposals[i]
             should_apply == ShouldApply(proposal, allow_overrides, allowed_fields)
             audit == Append(acc.audit,
                             AuditRow(proposal, should_apply, NextAuditId + i - 1))
         IN  IF should_apply
             THEN LET u == update_field(acc.data, proposal.field,
                                        _coerce_value(proposal.value))
                  IN  IF u.ok
                      THEN ApplyFrom(proposals, i + 1, allow_overrides, allowed_fields,
                                     [acc EXCEPT !.data = u.data, !.audit = audit,
                                                 !.applied = acc.applied + 1])
                      ELSE [acc EXCEPT !.err = "TypeError", !.audit = audit]
             ELSE ApplyFrom(proposals, i + 1, allow_overrides, allowed_fields,
                            [acc EXCEPT !.audit = audit,
                                        !.skipped = Append(acc.skipped, proposal.field)])

\* The outcome of OverridesService.apply: session_scope commits the audit
\* rows when the loop ends and rolls them back when it raised; the file
\* keeps every write made before.
ApplyOutcome(proposals, allow_overrides, allowed_fields) ==
    LET acc == ApplyFrom(proposals, 1, allow_overrides, allowed_fields,
                         [data |-> store, audit |-> <<>>, applied |-> 0,
                          skipped |-> <<>>, err |-> "none"])
        c == Commit(db, acc.audit)
    IN  [err |-> acc.err,
         data |-> acc.data,
         rows |-> IF acc.err = "none" THEN c.rows ELSE db,
         ret |-> [applied |-> acc.applied, skipped |-> acc.skipped,
                  total |-> Len(proposals), allow_flag |-> allow_overrides]]

\* One call OverridesService(run, allowed_fields, store).apply(proposals,
\* allow_overrides).
Apply(proposals, allow_overrides, allowed_fields) ==
    /\ bt.pc = "idle"
    /\ LET out == ApplyOutcome(proposals, allow_overrides, allowed_fields)
       IN  /\ store' = out.data
           /\ db' = out.rows
           /\ last' = [op |-> "apply", proposals |-> proposals,
                       allow_overrides |-> allow_overrides,
                       allowed_fields |-> allowed_fields,
                       ret |-> out.ret, err |-> out.err]
    /\ UNCHANGED <<config, run_as_of, survivorship_flag, symbols, membership, bt, stage, cli>>

\* _merge_dict of the file's "strategy" subtree into the strategy the YAML
\* files give, then StrategyConfig(**...): a number where factor_weights
\* must be a mapping fails validation.  The file's other top-level keys
\* ("provider", "notion") are not read.
StoreValue(data, path) == (CHOOSE leaf \in data : leaf.path = path).value

StoreHas(data, path) == \E leaf \in data : leaf.path = path

load_config_bundle(base, data) ==
    IF StoreHas(data, FactorWeightsField)
    THEN [err |-> "ValidationError", config |-> base]
    ELSE [err |-> "none",
          config |->
            IF StoreHas(data, FactorWeightField)
            THEN [base EXCEPT !.factor_weights =
                    [n \in DOMAIN base.factor_weights \cup {"momentum_12_1"} |->
                        IF n = "momentum_12_1" THEN StoreValue(data, FactorWeightField)
                        ELSE base.factor_weights[n]]]
            ELSE base]

\* One call load_config_bundle(overrides_path = the store).
LoadConfigBundle ==
    /\ bt.pc = "idle"
    /\ LET out == load_config_bundle(BaseConfig, store)
       IN  /\ config' = out.config
           /\ last' = [op |-> "load_config_bundle", err |-> out.err]
    /\ UNCHANGED <<run_as_of, survivorship_flag, symbols, membership, db, bt, stage, store, cli>>

-----------------------------------------------------------------------------
(* OverridesService.apply on bounded lists of proposals *)

Proposals == [field : OverrideFields, value : OverrideValues, enabled : BOOLEAN]
ProposalLists == UNION {[1..n -> Proposals] : n \in 0..MaxProposals}

\* The state after create_run, with the store file absent or holding an
\* earlier override.
InitOverrides ==
    /\ config = BaseConfig
    /\ run_as_of = 1
    /\ survivorship_flag = FALSE
    /\ symbols = {}
    /\ membership = [s \in Tickers |-> NoMembership]
    /\ db = {}
    /\ bt = IdleBt
    /\ last = [op |-> "none", err |-> "none"]
    /\ stage = "initialized"
    /\ store \in {{}, {[path |-> FactorWeightField, value |-> Rat(2, 5)]}}
    /\ cli = NoCli

\* One apply, then load_config_bundle.
NextOverrides ==
    \/ /\ last.op = "none"
       /\ \E proposals \in ProposalLists, allow_overrides \in BOOLEAN,
             allowed_fields \in SUBSET OverrideFields :
               Apply(proposals, allow_overrides, allowed_fields)
    \/ /\ last.op = "apply"
       /\ LoadConfigBundle

SpecOverrides == InitOverrides /\ [][NextOverrides]_vars

\* What a loaded bundle holds at a field path.
NoLoadedValue == <<0, 0>>
LoadedValue(bundle, path) ==
    CASE path = FactorWeightField ->
            IF "momentum_12_1" \in DOMAIN bundle.factor_weights
            THEN bundle.factor_weights["momentum_12_1"]
            ELSE NoLoadedValue
      [] path = RetriesField -> R(bundle.retries)
      [] OTHER -> NoLoadedValue

\* The proposals of the last apply that were to be applied, and those of
\* them whose write no later applied proposal replaced.
ToApply ==
    {i \in 1..Len(last'.proposals) :
        ShouldApply(last'.proposals[i], last'.allow_overrides, last'.allowed_fields)}
Standing ==
    {i \in ToApply :
        \A j \in ToApply : j > i => ~IsPrefix(last'.proposals[j].field,
                                                last'.proposals[i].field)}

\* What apply does to the store and reports, for a call that returned.
ApplyWritesAsClaimed ==
    LET ps == last'.proposals
        Skipped(proposal) ==
            ~ShouldApply(proposal, last'.allow_overrides, last'.allowed_fields)
        skippedOnes == SelectSeq(ps, Skipped)
    IN  /\ last'.ret.applied = Cardinality(ToApply)
        /\ last'.ret.skipped = [k \in 1..Len(skippedOnes) |-> skippedOnes[k].field]
        /\ last'.ret.applied + Len(last'.ret.skipped) = last'.ret.total
        /\ \A leaf \in store' \ store :
              \E i \in ToApply : /\ leaf.path = ps[i].field
                                  /\ leaf.value = _coerce_value(ps[i].value)
        /\ ToApply = {} => store' = store
        /\ \A i \in Standing :
              /\ StoreHas(store', ps[i].field)
              /\ StoreValue(store', ps[i].field) = _coerce_value(ps[i].value)

\* C23: apply writes a proposal's value under its field path exactly when
\* allow_overrides, the proposal's enabled flag and the membership of the
\* field in allowed_fields all hold, counts it in `applied`, and a later
\* load_config_bundle yields the value; the other proposals change nothing
\* and are listed in `skipped`; applied + len(skipped) = total.
C23_ApplyWritesAndLoads ==
    [][(Called("apply") /\ last'.err = "none")
       => /\ ApplyWritesAsClaimed
          /\ \A i \in Standing :
                LET out == load_config_bundle(BaseConfig, store')
                IN  /\ out.err = "none"
                    /\ LoadedValue(out.config, last'.proposals[i].field)
                          = _coerce_value(last'.proposals[i].value)]_vars

\* C29: every leaf that apply puts in the store has an audit row of the run
\* for its field with enabled = true among the rows apply persisted, and a
\* call that processed its proposals persisted one audit row per proposal;
\* this holds for calls that raise part-way as for calls that return.
C29_StoreChangesAreAudited ==
    [][Called("apply")
       => LET audited == Table("audit")' \ Table("audit")
          IN  /\ \A leaf \in store' \ store :
                    \E r \in audited :
                        r.run_id = RunId /\ r.field = leaf.path /\ r.enabled
              /\ last'.err = "none"
                    => Cardinality(audited) = Len(last'.proposals)]_vars

-----------------------------------------------------------------------------
(* Claims on the dates of what a signal is built from *)

\* C24: every signal that build_signals(as_of) computes is composed from
\* factor values dated on or before as_of and carries a liquidity metric
\* dated on or before as_of.
C24_NoLookAhead ==
    (Returned("build_signals") /\ ~last.cached) =>
        \A i \in 1..Len(last.ret) :
            LET sig == last.ret[i]
            IN  /\ \E pick \in FactorPicks :
                      /\ \A n \in FactorNames : pick[<<sig.ticker, n>>] <= last.as_of
                      /\ sig.score = _compose_score(sig.ticker, pick)
                /\ \E m \in Table("liquidity") :
                      /\ m.symbol = sig.ticker /\ m.run_id = RunId
                      /\ m.metric_date <= last.as_of
                      /\ sig.liquidity = m.median_traded_value_clp

-----------------------------------------------------------------------------
(* Claims on the dates of the prices of a period *)

EntryDate(s, trade) ==
    CHOOSE d \in {r.price_date : r \in ObservedFrom(s, trade)} :
        \A r \in ObservedFrom(s, trade) : d <= r.price_date

ExitDate(s, next_rebalance) ==
    CHOOSE d \in {r.price_date : r \in ObservedUpTo(s, next_rebalance)} :
        \A r \in ObservedUpTo(s, next_rebalance) : d >= r.price_date

\* C25: for every position that contributes to the return of a period, the
\* entry observation is dated no later than the exit observation, and both
\* are dated between the trade date and next_rebalance inclusive.
C25_EntryNotAfterExit ==
    [][(PeriodDone /\ bt'.portfolio # <<>>)
       => LET trade == next_trading_day(bt.schedule[bt.idx])
              next_rebalance == bt.schedule[bt.idx + 1]
          IN  \A i \in WithBothPrices(bt'.portfolio, trade, next_rebalance) :
                  LET entry == EntryDate(bt'.portfolio[i].ticker, trade)
                      exit == ExitDate(bt'.portfolio[i].ticker, next_rebalance)
                  IN  /\ entry <= exit
                      /\ trade <= entry /\ entry <= next_rebalance
                      /\ trade <= exit /\ exit <= next_rebalance]_vars

\* C26: when a non-empty portfolio has no position with both an entry and
\* an exit price, or the weights of the positions that have both sum to
\* zero, the period return is 0: capital is unchanged and no cost is charged.
C26_NothingPricedNothingCharged ==
    [][(/\ PeriodDone
        /\ bt'.portfolio # <<>>
        /\ (PricedPositions = {} \/ PricedWeight = Zero))
       => /\ bt'.capital = bt.capital
          /\ bt'.equity_points[Len(bt'.equity_points)].capital = bt.capital]_vars

\* C26 witness: a period with positive costs has just ended on a non-empty
\* portfolio none of whose positions has both prices, capital as before.
C26_Witness ==
    /\ bt.pc \in {"signals", "persist"}
    /\ bt.idx >= 2
    /\ bt.portfolio # <<>>
    /\ Contributing(bt.portfolio, next_trading_day(bt.schedule[bt.idx - 1]),
                    bt.schedule[bt.idx]) = {}
    /\ config.transaction_cost_bps + config.slippage_bps > 0
    /\ bt.equity_points[Len(bt.equity_points)].capital
         = bt.equity_points[Len(bt.equity_points) - 1].capital

\* C26 witness of the second case: the positions with both prices have
\* weights that sum to zero.
C26_ZeroWeightReached ==
    /\ bt.pc \in {"signals", "persist"}
    /\ bt.idx >= 2
    /\ Contributing(bt.portfolio, next_trading_day(bt.schedule[bt.idx - 1]),
                    bt.schedule[bt.idx]) # {}
    /\ EffectiveWeight(bt.portfolio, next_trading_day(bt.schedule[bt.idx - 1]),
                       bt.schedule[bt.idx]) = Zero

-----------------------------------------------------------------------------
(* Claims on the equity curve of run_backtest *)

\* The equity points the database holds for the run, as (date, capital).
PersistedCurve(rows) ==
    {[date |-> r.point_date, capital |-> r.capital] :
        r \in {x \in rows : x.t = "equity" /\ x.run_id = RunId}}

\* C27: on success run_backtest returns and persists an equity curve with
\* one point per schedule date: the first point is (start_date, 1.0), the
\* k-th later point is dated with the k-th later schedule date, the dates
\* increase strictly and the last point is dated end_date.
C27_CurveFollowsSchedule ==
    [][(bt.pc = "persist" /\ bt'.pc = "idle" /\ last'.err = "none")
       => LET curve == last'.ret
              schedule == bt.schedule
          IN  /\ Len(curve) = Len(schedule)
              /\ curve[1] = [date |-> bt.start, capital |-> One]
              /\ \A k \in 2..Len(curve) : curve[k].date = schedule[k]
              /\ \A k \in 1..(Len(curve) - 1) : curve[k].date < curve[k + 1].date
              /\ curve[Len(curve)].date = bt.end
              /\ PersistedCurve(db') = SeqToSet(curve)
              /\ Cardinality(PersistedCurve(db')) = Len(schedule)]_vars

\* C27 witness: a backtest over a schedule of three dates, whose first date
\* is later than start_date, has returned its curve.
C27_Witness ==
    /\ Returned("run_backtest")
    /\ bt.pc = "idle"
    /\ Len(last.ret) = 3
    /\ last.schedule.dates[1] > last.start
    /\ Cardinality(PersistedCurve(db)) = 3

-----------------------------------------------------------------------------
(* Claims on the realized-volatility factor *)

VolatilityFactors == {d \in SeqToSet(FactorDefinitions) : d.method = "volatility"}

\* The number of daily returns the observations loaded for a symbol form.
ReturnsFormed(s, as_of) ==
    Max(0, Min(Cardinality(ObservationDates(s, as_of)), PriceWindow) - 1)

\* The last n daily simple returns of a symbol, oldest first.
TrailingReturns(s, as_of, n) ==
    [k \in 1..n |-> RSub(RDiv(CloseFromEnd(s, as_of, n - k + 1),
                               CloseFromEnd(s, as_of, n - k + 2)), One)]

\* C28: a realized-volatility value for lookback L is computed from
\* exactly L trailing daily simple returns, and no value is emitted when the
\* price window holds too few observations to form L returns.
C28_VolatilityOverLookbackReturns ==
    last.op = "compute" =>
        \A s \in symbols : \A d \in VolatilityFactors :
            IF ReturnsFormed(s, last.as_of) < d.lookback_days
            THEN FactorValuesOf(s, d.name, last.as_of) = {}
            ELSE FactorValuesOf(s, d.name, last.as_of)
                    = {RMul(R(252), SampleVariance(
                          TrailingReturns(s, last.as_of, d.lookback_days)))}

-----------------------------------------------------------------------------
(* The CLI stage commands: _resolve_run, the work, _complete_stage *)

MaxInvocations == 3

\* stage when the runs table has no row for the run.
NoRun == "absent"

StageCommands == {"ingest", "factors", "signals", "portfolio", "backtest"}

\* f"{stage}_completed"
Completed(name) == name \o "_completed"

\* _resolve_run(stage, as_of, survivorship_flag, run_id): with a run_id,
\* load_run (ValueError when the run has no row) and update_run_stage(stage);
\* without one, create_run(as_of, stage=stage).  The model has one run, so a
\* run is created only while it has no row.
CliResolve(name, with_run_id, as_of, flag) ==
    /\ cli.pc = "idle"
    /\ bt.pc = "idle"
    /\ cli.count < MaxInvocations
    /\ IF with_run_id
       THEN IF stage = NoRun
            THEN /\ cli' = [cli EXCEPT !.command = name, !.count = @ + 1]
                 /\ last' = [op |-> "load_run", err |-> "ValueError"]
                 /\ UNCHANGED <<stage, run_as_of, survivorship_flag>>
            ELSE /\ stage' = name
                 /\ run_as_of' = cli.as_of
                 /\ cli' = [cli EXCEPT !.pc = "work", !.command = name]
                 /\ last' = [op |-> "_resolve_run", err |-> "none"]
                 /\ UNCHANGED survivorship_flag
       ELSE /\ stage = NoRun
            /\ stage' = name
            /\ run_as_of' = as_of
            /\ survivorship_flag' = (flag /\ name = "ingest")
            /\ cli' = [cli EXCEPT !.pc = "work", !.command = name, !.as_of = as_of]
            /\ last' = [op |-> "_resolve_run", err |-> "none"]
    /\ UNCHANGED <<config, symbols, membership, db, bt, store>>

Resolved == cli.pc = "work" /\ last.op = "_resolve_run"

\* The work of each command, between _resolve_run and _complete_stage.
CliIngest ==
    /\ Resolved /\ cli.command = "ingest"
    /\ \E r \in IngestRanges : Ingest(r[1], r[2])

CliFactors ==
    /\ Resolved /\ cli.command = "factors"
    /\ Compute(run_as_of)

CliSignals ==
    /\ Resolved /\ cli.command = "signals"
    /\ BuildSignals(run_as_of)

CliPortfolio ==
    /\ cli.pc = "work" /\ cli.command = "portfolio"
    /\ \/ /\ last.op = "_resolve_run"
          /\ BuildSignals(run_as_of)
       \/ /\ Returned("build_signals")
          /\ Build(last.ret, DefaultTopN)

CliBacktest ==
    /\ cli.pc = "work" /\ cli.command = "backtest"
    /\ \/ /\ last.op = "_resolve_run"
          /\ \E r \in BacktestRanges : BacktestStart(r[1], r[2])
       \/ BtSignals
       \/ BtBuild
       \/ BtFinish

\* The work of the command has returned or raised.
WorkFinished(name) ==
    /\ bt.pc = "idle"
    /\ CASE name = "ingest" -> last.op = "ingest"
         [] name = "factors" -> last.op = "compute"
         [] name = "signals" -> last.op = "build_signals"
         [] name = "portfolio" ->
                \/ last.op = "build"
                \/ last.op = "build_signals" /\ last.err # "none"
         [] name = "backtest" -> last.op = "run_backtest" /\ last.err # "running"

\* Variant of WorkSucceeded that takes a raised error for a return.
WorkEnded == TRUE

\* The statement after the work is reached when the work did not raise.
WorkSucceeded == last.err = "none"

\* The end of a command: _complete_stage(run, name) after work that
\* returned, nothing more after work that raised.
CliFinish ==
    /\ cli.pc = "work"
    /\ WorkFinished(cli.command)
    /\ stage' = IF WorkSucceeded THEN Completed(cli.command) ELSE stage
    /\ cli' = [cli EXCEPT !.pc = "idle", !.count = @ + 1]
    /\ UNCHANGED <<config, run_as_of, survivorship_flag, symbols, membership, db, bt,
                   last, store>>

InitCli ==
    /\ config = PipelineConfig
    /\ run_as_of \in PipelineDays
    /\ survivorship_flag = FALSE
    /\ symbols = {}
    /\ membership = [s \in Tickers |-> NoMembership]
    /\ db = {}
    /\ bt = IdleBt
    /\ stage \in {NoRun, "initialized"}
    /\ store = {}
    /\ cli = [NoCli EXCEPT !.as_of = run_as_of]
    /\ last = [op |-> "none", err |-> "none"]

NextCli ==
    \/ \E name \in StageCommands, with_run_id \in BOOLEAN, as_of \in PipelineDays,
          flag \in BOOLEAN : CliResolve(name, with_run_id, as_of, flag)
    \/ CliIngest
    \/ CliFactors
    \/ CliSignals
    \/ CliPortfolio
    \/ CliBacktest
    \/ CliFinish

SpecCli == InitCli /\ [][NextCli]_vars

\* C30: a stage command sets the stored stage to its name before its work
\* starts, sets it to '<name>_completed' only after that work has finished
\* without error, and leaves it other than '<name>_completed' when the work
\* raised.
C30_StageFollowsCommand ==
    [][/\ (cli.pc = "idle" /\ cli'.pc = "work") => stage' = cli'.command
       /\ (cli.pc = "work" /\ last' # last)
             => stage = cli.command /\ stage' = stage
       /\ \A name \in StageCommands :
             (stage' = Completed(name) /\ stage # stage')
                => /\ cli.pc = "work" /\ cli.command = name
                   /\ WorkFinished(name)
                   /\ last.err = "none"
       /\ (cli.pc = "work" /\ cli'.pc = "idle" /\ last.err # "none")
             => stage' = cli.command]_vars

\* C30 witness: after an ingest and a factors command, a second factors
\* command on the run has raised and left the stage at "factors".
C30_Witness ==
    /\ cli.pc = "idle"
    /\ cli.count = 3
    /\ cli.command = "factors"
    /\ last.op = "compute"
    /\ last.err # "none"
    /\ stage = "factors"

\* C30 witness of a completion: the backtest command has returned.
C30_Completed ==
    /\ cli.pc = "idle"
    /\ last.op = "run_backtest"
    /\ last.err = "none"
    /\ stage = "backtest_completed"

====
